---------------------------- MODULE Spec2Model ----------------------------
(***************************************************************************)
(* Model of the IoT pet feeder firmware (lequan81/iot_feeder):             *)
(*   - the water refill state machine checkWaterLevel(), in its two        *)
(*     implementations (helpers/water_helpers.h and main.cpp);             *)
(*   - the feeding session feeding() / dispenseFoodWithFeedback() of       *)
(*     helpers/feeding_helpers.h;                                          *)
(*   - the sample filters of the scale and of the distance sensor;         *)
(*   - nonBlockingWait() and the water-check timer of loop() of main.cpp;  *)
(*   - the portion banding of showFeedingResults();                        *)
(*   - the feeding schedule of helpers/web_helpers.h;                      *)
(*   - the dispense loop of feeding() of main.cpp;                         *)
(*   - the elapsed-time tests of the water machine, the dispense loop and  *)
(*     loop().                                                             *)
(*                                                                         *)
(* Conventions.                                                            *)
(*   Time is in milliseconds.  millis() is an unsigned counter that wraps; *)
(*   the model keeps the wrap at a reduced modulus Wrap (the firmware      *)
(*   wraps at 2^32) and computes every elapsed time with USub, the         *)
(*   unsigned difference.                                                  *)
(*   Distances are in tenths of a centimetre (19.0 cm is 190).             *)
(*   Weights are fixed-point numbers in twelfths of a gram.                *)
(***************************************************************************)
EXTENDS Integers, Sequences, FiniteSets, TLC

Min(a, b) == IF a <= b THEN a ELSE b
Max(a, b) == IF a >= b THEN a ELSE b

\* constrain(x, lo, hi) of Arduino.h
constrain(x, lo, hi) == IF x < lo THEN lo ELSE IF x > hi THEN hi ELSE x

(***************************************************************************)
(* Program constants (config.h)                                            *)
(***************************************************************************)
REFILL_DURATION == 10000
COOLDOWN_PERIOD == 300000
WATER_CHECK_INTERVAL == 10000
DISPLAY_UPDATE_INTERVAL == 1000
REFILL_DISPLAY_INTERVAL == 200
WATER_CRITICAL_HEIGHT == 20
DISTANCE_WATER_EMPTY == 190
DISTANCE_WATER_FULL == 160
MAX_VALID_DISTANCE == 4000

\* display times and feeding parameters (config.h); weights in grams,
\* factors in percent
LCD_TIMEOUT == 3000
INFO_DISPLAY_TIME == 3000
QUICK_DISPLAY_TIME == 2000
LCD_UPDATE_INTERVAL == 500
FEED_THRESHOLD == 50
FEED_WEIGHT == 65
FEED_TIMEOUT == 30000
FEED_RETRY_TIMEOUT == 2
FEED_CALIBRATION_FACTOR == 90
FEED_COMPLETE_FACTOR == 95
EXCESS_FACTOR == 125
WEIGHT_READ_INTERVAL == 100
SCALE_TIMEOUT == 3000
SETTLE_FINAL_TIME == 2000
\* literals of feeding_helpers.h
movingAvgSize == 3
SERVO_OPEN_DELAY == 500
RETRY_OPEN_DELAY == 300
LOOP_DELAY == 10
SETTLE_READ_DELAY == 100
SCALE_RECOVER_TRIES == 5
SETTLE_READINGS == 5
SCALE_POLL_DELAY == 50
NOTIFY_TIMEOUT == 20000
NOTIFY_POLL_DELAY == 100
\* showFeedingResults(): the limits of the accuracy percentage
FEED_PCT_MAX == 999
PERFECT_PCT_LOW == 95
PERFECT_PCT_HIGH == 105
UNDERFED_PCT == 80
OVERFED_PCT == 120
\* webUpdate(): the period of the schedule check, in seconds
SCHEDULE_CHECK_INTERVAL == 60

(***************************************************************************)
(* Bounds of the model                                                     *)
(***************************************************************************)
\* the clock modulus is WrapTicks water ticks (reduced from 2^32 ms)
WrapTicks == 66
\* the largest time between two consecutive checkWaterLevel() calls, in ticks
MaxGapTicks == 62

\* the most ticks one iteration of the dispense loop may take
MaxAdvTicks == 1

\* the largest value one read of a filter pass returns, in sample steps
MaxReading == 2
\* the largest mass showFeedingResults() is given, in grams above the
\* initial weight
MaxBandGrams == 90
\* number of days the schedule clock runs
MaxDays == 2

\* granularity of the call times of the water state machine
WaterTick == WATER_CHECK_INTERVAL \div 2
Wrap == WrapTicks * WaterTick

\* mutant: the difference as a signed number, without the wrap
USubSigned(a, b) == a - b

\* unsigned (wrapping) difference a - b of two millis() values
USub(a, b) == (a - b + Wrap) % Wrap

\* weights are held in twelfths of a gram, so that quarter grams and their
\* mean over the moving-average window are whole numbers
Grams(g) == g * (3 * 4)

\* granularity of the times of the dispense loop
FeedTick == FEED_TIMEOUT \div 6

VARIABLES
  feed,             \* the feeding session: locals of feeding() and
                    \* dispenseFoodWithFeedback(), the hatch, and observers
  now,              \* millis(), modulo Wrap
  water,            \* statics of checkWaterLevel() in water_helpers.h + relay pin
  waterMain,        \* statics of checkWaterLevel() in main.cpp + relay pin
  distanceCm,       \* the filtered distance the last call read
  sinceEntry,       \* real time since water entered REFILL_RUNNING/COOLDOWN
  sinceEntryMain,   \* the same for waterMain
  samples,          \* the reads of one pass of a sample filter
  filtered,         \* the filter that was applied to them and what it returned
  pinged,           \* whether the last call of each checkWaterLevel() read
                    \* the distance sensor
  wait,             \* one call of nonBlockingWait(): arguments and locals
  mainLoop,         \* loop() of main.cpp: its statics and what it last called
  band,             \* one call of showFeedingResults(): input and report
  sched,            \* the schedule statics of web_helpers.h and the clock
  timer             \* one elapsed-time test: the recorded start, the real
                    \* time since then, the test made and what it decided

waterVars == <<now, water, waterMain, distanceCm, sinceEntry, sinceEntryMain,
               pinged>>
filterVars == <<samples, filtered>>
auxVars == <<wait, mainLoop, band, sched, timer>>
vars == <<feed, waterVars, filterVars, auxVars>>

\* the values of the parts that a specification leaves alone
NoPing == [header |-> FALSE, main |-> FALSE]
WaitIdle == [pc |-> "idle", waitTime |-> 0, startDisplayTime |-> 0,
             startWait |-> 0, actualWaitTime |-> 0]
\* loop() before its first iteration; sinceCall, callGap, calls and fed are
\* observers
LoopIdle ==
  [lastWaterCheckTime |-> 0,
   sinceCall |-> 0,     \* real time since checkWaterLevel() was last
                        \* invoked, counted up to WATER_CHECK_INTERVAL
   callGap |-> 0,       \* the same between its last two invocations
   calls |-> 0,         \* number of invocations, counted up to 2
   fed |-> FALSE]       \* feeding() ran in the iteration of the last one
\* showFeedingResults() before it is called with the default target
NoBand ==
  [pc |-> "idle", initialWeight |-> 0, finalWeight |-> 0,
   targetAmount |-> Grams(FEED_WEIGHT), dispensedWeight |-> 0,
   feedPct |-> 0, qualityMsg |-> ""]
\* the schedule statics of web_helpers.h at boot; epoch is the time of the
\* NTP client in seconds, enabled and event are observers
SchedIdle ==
  [epoch |-> 0, timeSet |-> FALSE, webConnected |-> FALSE,
   lastScheduleCheck |-> 0,
   nextScheduledFeeding |-> 0, hasActiveSchedule |-> FALSE,
   enabled |-> {},       \* observers: the minutes of the enabled and of
   disabled |-> {},      \* the disabled entries of the message last processed
   event |-> "boot"]     \* what happened last: "clock", "time",
                         \* "connection", or what webUpdate() did:
                         \* "update" (nothing), "schedules", "check"
\* no elapsed-time test is being followed
TimerIdle == [start |-> 0, elapsed |-> 0, test |-> "none", decision |-> FALSE]
AuxIdle ==
  /\ wait = WaitIdle
  /\ mainLoop = LoopIdle
  /\ band = NoBand
  /\ sched = SchedIdle
  /\ timer = TimerIdle

(***************************************************************************)
(* Feeding session: helpers/feeding_helpers.h                              *)
(***************************************************************************)
\* one scale sample of a filter pass: is_ready() and, when ready, get_units()
Sample(r, u) == [ready |-> r, units |-> u]
AllReady(u) == [i \in 1..SETTLE_READINGS |-> Sample(TRUE, u)]
NoneReady == [i \in 1..SETTLE_READINGS |-> Sample(FALSE, 0)]

RECURSIVE SumReady(_, _)
SumReady(run, n) ==
  IF n = 0 THEN 0
  ELSE SumReady(run, n - 1) + (IF run[n].ready THEN run[n].units ELSE 0)

RECURSIVE CountReady(_, _)
CountReady(run, n) ==
  IF n = 0 THEN 0
  ELSE CountReady(run, n - 1) + (IF run[n].ready THEN 1 ELSE 0)

\* mutant: the sum is divided by the number of reads asked for
measureSettledWeightAllSlots(run) ==
  IF CountReady(run, Len(run)) > 0
  THEN SumReady(run, Len(run)) \div Len(run)
  ELSE 0

\* measureSettledWeight(): the mean of the samples taken while the scale was
\* ready, 0 when there was none
measureSettledWeight(run) ==
  LET validReadings == CountReady(run, Len(run))
  IN IF validReadings > 0
     THEN SumReady(run, Len(run)) \div validReadings
     ELSE 0

\* time measureSettledWeight() spends in delay(100)
settleDelay(run) == CountReady(run, Len(run)) * SETTLE_READ_DELAY

RECURSIVE SumNonZero(_, _)
SumNonZero(run, n) ==
  IF n = 0 THEN 0
  ELSE SumNonZero(run, n - 1)
         + (IF run[n].ready /\ run[n].units # 0 THEN run[n].units ELSE 0)

RECURSIVE CountNonZero(_, _)
CountNonZero(run, n) ==
  IF n = 0 THEN 0
  ELSE CountNonZero(run, n - 1)
         + (IF run[n].ready /\ run[n].units # 0 THEN 1 ELSE 0)

\* getStableWeight() of scale_helpers.h: a failed read is stored as 0 and
\* every 0 is skipped; the mean of the others, 0 when there is none
getStableWeight(run) ==
  LET validReadings == CountNonZero(run, Len(run))
  IN IF validReadings = 0
     THEN 0
     ELSE SumNonZero(run, Len(run)) \div validReadings

\* dispensedWeight >= targetAmount * factor, factor in percent
Reaches(dispensedWeight, targetAmount, pct) ==
  dispensedWeight * 100 >= targetAmount * pct

\* the session before feeding() is called; the hatch as setupPins() leaves it
FeedIdle ==
  [pc |-> "idle",
   hatch |-> "CLOSE",
   firstReady |-> 0,      \* checkScaleReady() in progress: the first
                          \* is_ready() call that answers true
   currentFoodWeight |-> 0,
   waited |-> 0,          \* checkExistingFood() in progress: time spent
                          \* waiting for the release of the button
   initialWeight |-> 0,
   targetAmount |-> Grams(FEED_WEIGHT),
   weightReadings |-> [i \in 0..(movingAvgSize - 1) |-> 0],
   readingIndex |-> 0,
   currentWeight |-> 0,
   startTime |-> 0,
   lastDisplayUpdate |-> 0,
   lastWeightRead |-> 0,
   targetReached |-> FALSE,
   preCloseExecuted |-> FALSE,
   dispensedWeight |-> 0,
   retryCount |-> 0,
   stabilityCounter |-> 0,
   returned |-> 0,
   finalWeight |-> 0,
   lcd |-> "",            \* first line of the display
   status |-> "",         \* the last status dispenseFoodWithFeedback() showed
                          \* when it ended the dispensing
   report |-> "",         \* the result feeding() shows and publishes
   reportedWeight |-> 0,
   \* observers
   exit |-> "none",       \* the path on which the dispensing ended
   step |-> "none",       \* what the last step of the session did
   polled |-> 0,          \* dispensedWeight of the moving average at the poll
   settled |-> 0,         \* dispensedWeight measured after the pre-close
   opens |-> 0,           \* number of hatchServo.write(SERVO_OPEN_ANGLE)
   lastRead |-> 0,        \* the last raw reading the scale gave while the
                          \* readings of the dispensing were non-decreasing
   monotone |-> TRUE,     \* no raw reading was below the one before it
   zone |-> "below",      \* how far the raw readings have come, see observe
   slept |-> 0,           \* the longest single delay() call made so far
   lateOpen |-> FALSE,    \* the hatch was opened FEED_TIMEOUT or more after
                          \* startTime
   busy |-> 0]            \* time the step spends in delays (0 between steps)

\* observer of one raw reading scale.get_units() returned. zone: how far
\* above initialWeight the raw readings have come, as a share of the target:
\* "below" the complete factor, "near" (at least the complete factor), and,
\* for the first reading at or above the target, "target" when it was below
\* the excess factor and "excess" otherwise
observe(s, units) ==
  LET up == s.monotone /\ units >= s.lastRead
      dw == units - s.initialWeight
      zone ==
        IF s.zone \in {"target", "excess"} THEN s.zone
        ELSE IF Reaches(dw, s.targetAmount, EXCESS_FACTOR) THEN "excess"
        ELSE IF dw >= s.targetAmount THEN "target"
        ELSE IF Reaches(dw, s.targetAmount, FEED_COMPLETE_FACTOR) THEN "near"
        ELSE s.zone
  IN [s EXCEPT !.monotone = up,
               !.lastRead = IF up THEN units ELSE s.initialWeight,
               !.zone = zone]

\* observer of the readings of the first n samples of a filter pass
RECURSIVE observeRun(_, _, _)
observeRun(s, run, n) ==
  IF n = 0 THEN s
  ELSE LET s1 == observeRun(s, run, n - 1)
       IN IF run[n].ready THEN observe(s1, run[n].units) ELSE s1

\* lines 210-231: the locals, then the hatch is opened
dispenseStart(s, t) ==
  [s EXCEPT !.pc = "dispensing",
            !.weightReadings = [i \in 0..(movingAvgSize - 1) |-> s.initialWeight],
            !.readingIndex = 0,
            !.currentWeight = s.initialWeight,
            !.startTime = t,
            !.lastDisplayUpdate = 0,
            !.lastWeightRead = 0,
            !.targetReached = FALSE,
            !.preCloseExecuted = FALSE,
            !.dispensedWeight = 0,
            !.retryCount = 0,
            !.stabilityCounter = 0,
            !.hatch = "OPEN",
            !.opens = @ + 1,
            !.lastRead = s.initialWeight,
            !.monotone = TRUE,
            !.zone = "below",
            !.lateOpen = FALSE,
            !.lcd = "Starting feed",
            !.step = "open",
            !.slept = Max(@, SERVO_OPEN_DELAY),
            !.busy = SERVO_OPEN_DELAY]

\* mutant: the newest reading is taken as it is, without the window
movingAverageUnfiltered(s, units) ==
  LET wr == [s.weightReadings EXCEPT ![s.readingIndex] = units]
      dw == IF units - s.initialWeight < 0 THEN 0
            ELSE units - s.initialWeight
  IN [observe(s, units) EXCEPT
               !.weightReadings = wr,
               !.readingIndex = (s.readingIndex + 1) % movingAvgSize,
               !.currentWeight = units,
               !.dispensedWeight = dw,
               !.polled = dw]

\* mutant: a negative delta is not clamped
movingAverageUnclamped(s, units) ==
  LET wr == [s.weightReadings EXCEPT ![s.readingIndex] = units]
      cw == (wr[0] + wr[1] + wr[2]) \div movingAvgSize
  IN [s EXCEPT !.weightReadings = wr,
               !.readingIndex = (s.readingIndex + 1) % movingAvgSize,
               !.currentWeight = cw,
               !.dispensedWeight = cw - s.initialWeight,
               !.polled = cw - s.initialWeight]

\* lines 262-274: the moving average and the dispensed amount
movingAverage(s, units) ==
  LET wr == [s.weightReadings EXCEPT ![s.readingIndex] = units]
      sumWeight == wr[0] + wr[1] + wr[2]
      cw == sumWeight \div movingAvgSize
      dw == IF cw - s.initialWeight < 0 THEN 0 ELSE cw - s.initialWeight
  IN [observe(s, units) EXCEPT
               !.weightReadings = wr,
               !.readingIndex = (s.readingIndex + 1) % movingAvgSize,
               !.currentWeight = cw,
               !.dispensedWeight = dw,
               !.polled = dw]

\* lines 279-303: close, settle, re-measure, reset the window
preCloseSettle(s, run) ==
  LET settledWeight == measureSettledWeight(run)
      dw == IF settledWeight - s.initialWeight < 0 THEN 0
            ELSE settledWeight - s.initialWeight
  IN [observeRun(s, run, Len(run)) EXCEPT
               !.hatch = "CLOSE",
               !.preCloseExecuted = TRUE,
               !.lcd = "Almost there...",
               !.busy = @ + SETTLE_FINAL_TIME + settleDelay(run),
               !.slept = Max(@, SETTLE_FINAL_TIME),
               !.dispensedWeight = dw,
               !.currentWeight = settledWeight,
               !.weightReadings =
                  [i \in 0..(movingAvgSize - 1) |-> settledWeight],
               !.settled = dw,
               !.step = "preclose"]

\* mutant: the dispensing is not given up when the retries are used up
preCloseDecideNoGiveUp(s) ==
  IF ~Reaches(s.dispensedWeight, s.targetAmount, FEED_COMPLETE_FACTOR)
     /\ s.retryCount < FEED_RETRY_TIMEOUT
  THEN [s EXCEPT !.retryCount = @ + 1, !.hatch = "OPEN", !.opens = @ + 1,
                 !.busy = @ + RETRY_OPEN_DELAY,
                 !.slept = Max(@, RETRY_OPEN_DELAY),
                 !.preCloseExecuted = FALSE]
  ELSE IF Reaches(s.dispensedWeight, s.targetAmount, FEED_COMPLETE_FACTOR)
  THEN [s EXCEPT !.targetReached = TRUE,
                 !.status = "Target reached!",
                 !.busy = @ + QUICK_DISPLAY_TIME,
                 !.exit = "COMPLETE"]
  ELSE s

\* mutant: one retry too many
preCloseDecideExtraRetry(s) ==
  IF ~Reaches(s.dispensedWeight, s.targetAmount, FEED_COMPLETE_FACTOR)
     /\ s.retryCount <= FEED_RETRY_TIMEOUT
  THEN [s EXCEPT !.retryCount = @ + 1, !.hatch = "OPEN", !.opens = @ + 1,
                 !.preCloseExecuted = FALSE]
  ELSE [s EXCEPT !.targetReached = TRUE,
                 !.exit = IF Reaches(s.dispensedWeight, s.targetAmount,
                                     FEED_COMPLETE_FACTOR)
                          THEN "COMPLETE" ELSE "PARTIAL"]

\* mutant: the settled amount is accepted at the pre-close factor
preCloseDecideLax(s) ==
  IF ~Reaches(s.dispensedWeight, s.targetAmount, FEED_CALIBRATION_FACTOR)
     /\ s.retryCount < FEED_RETRY_TIMEOUT
  THEN [s EXCEPT !.retryCount = @ + 1, !.hatch = "OPEN", !.opens = @ + 1,
                 !.preCloseExecuted = FALSE]
  ELSE [s EXCEPT !.targetReached = TRUE,
                 !.exit = IF Reaches(s.dispensedWeight, s.targetAmount,
                                     FEED_CALIBRATION_FACTOR)
                          THEN "COMPLETE" ELSE "PARTIAL"]

\* lines 305-346: retry, complete or give up
preCloseDecide(s) ==
  IF ~Reaches(s.dispensedWeight, s.targetAmount, FEED_COMPLETE_FACTOR)
     /\ s.retryCount < FEED_RETRY_TIMEOUT
  THEN [s EXCEPT !.retryCount = @ + 1,
                 !.lcd = "Need more food",
                 !.hatch = "OPEN",
                 !.opens = @ + 1,
                 !.lateOpen = @ \/ USub(s.lastWeightRead, s.startTime) + s.busy
                                     >= FEED_TIMEOUT,
                 !.busy = @ + RETRY_OPEN_DELAY,
                 !.slept = Max(@, RETRY_OPEN_DELAY),
                 !.preCloseExecuted = FALSE]
  ELSE IF Reaches(s.dispensedWeight, s.targetAmount, FEED_COMPLETE_FACTOR)
  THEN [s EXCEPT !.targetReached = TRUE,
                 !.lcd = "Target reached!",
                 !.status = "Target reached!",
                 !.busy = @ + QUICK_DISPLAY_TIME,
                 !.exit = "COMPLETE"]
  ELSE IF s.retryCount >= FEED_RETRY_TIMEOUT
  THEN [s EXCEPT !.lcd = "Warning: Only",
                 !.status = "Warning: Only",
                 !.busy = @ + INFO_DISPLAY_TIME,
                 !.targetReached = TRUE,
                 !.exit = "PARTIAL"]
  ELSE s

\* mutant: the pre-close is due from 0.85 x target on
preCloseDueEarly(s) ==
  /\ ~s.preCloseExecuted
  /\ Reaches(s.dispensedWeight, s.targetAmount, FEED_CALIBRATION_FACTOR - 5)

\* lines 277-278: the pre-close condition
preCloseDue(s) ==
  /\ ~s.preCloseExecuted
  /\ Reaches(s.dispensedWeight, s.targetAmount, FEED_CALIBRATION_FACTOR)

\* lines 276-347
preClose(s, run) ==
  IF preCloseDue(s)
  THEN preCloseDecide(preCloseSettle(s, run))
  ELSE s

\* lines 349-374: the direct target check and the emergency stop
standardCheck(s) ==
  IF s.preCloseExecuted
  THEN s
  ELSE LET s1 == IF s.dispensedWeight >= s.targetAmount
                 THEN IF s.stabilityCounter < 2
                      THEN [s EXCEPT !.hatch = "CLOSE",
                                     !.preCloseExecuted = TRUE,
                                     !.stabilityCounter = @ + 1]
                      ELSE [s EXCEPT !.hatch = "CLOSE",
                                     !.preCloseExecuted = TRUE,
                                     !.targetReached = TRUE,
                                     !.exit = "COMPLETE"]
                 ELSE s
       IN IF Reaches(s.dispensedWeight, s.targetAmount, EXCESS_FACTOR)
          THEN [s1 EXCEPT !.hatch = "CLOSE",
                          !.lcd = "Warning!",
                          !.status = "Excess food!",
                          !.busy = @ + QUICK_DISPLAY_TIME,
                          !.targetReached = TRUE,
                          !.exit = "EXCESS"]
          ELSE s1

\* lines 254-259: the scale did not recover; the function returns
scaleError(s) ==
  [s EXCEPT !.lcd = "Scale error!",
            !.status = "Scale error!",
            !.hatch = "CLOSE",
            !.busy = @ + SCALE_RECOVER_TRIES * SETTLE_READ_DELAY
                       + LCD_TIMEOUT + LCD_TIMEOUT,
            !.slept = Max(@, SETTLE_READ_DELAY),
            !.returned = s.dispensedWeight,
            !.exit = "ERROR_SCALE",
            !.step = "scale_error",
            !.pc = "measuring"]

\* lines 377-381
displayUpdate(s, t) ==
  IF USub(t, s.lastDisplayUpdate) >= LCD_UPDATE_INTERVAL
  THEN [s EXCEPT !.lastDisplayUpdate = t, !.lcd = "Feeding: %"]
  ELSE s

\* lines 238-375 when a weight read is due and the scale answers after
\* stall failed is_ready() calls
pollWeight(s, t, stall, units, run) ==
  LET s0 == [s EXCEPT !.lastWeightRead = t,
                      !.step = "poll",
                      !.slept = IF stall > 0 THEN Max(@, SETTLE_READ_DELAY)
                                ELSE @,
                      !.busy = stall * SETTLE_READ_DELAY]
  IN standardCheck(preClose(movingAverage(s0, units), run))

\* mutant: the hatch is left as it is when the loop ends
loopExitNoClose(s) ==
  [s EXCEPT !.returned = s.dispensedWeight,
            !.exit = IF s.exit = "none" THEN "TIMEOUT" ELSE s.exit,
            !.step = "exit",
            !.busy = 0,
            !.pc = "measuring"]

\* lines 387-390: the loop has ended
loopExit(s) ==
  [s EXCEPT !.hatch = "CLOSE",
            !.returned = s.dispensedWeight,
            !.exit = IF s.exit = "none" THEN "TIMEOUT" ELSE s.exit,
            !.step = "exit",
            !.busy = 0,
            !.pc = "measuring"]

\* feeding(), lines 502-545: final measurement, results, publication
finalMeasure(s, run) ==
  LET finalWeight == measureSettledWeight(run)
      dw == IF finalWeight - s.initialWeight < 0 THEN 0
            ELSE finalWeight - s.initialWeight
  IN [s EXCEPT !.finalWeight = finalWeight,
               !.reportedWeight = dw,
               !.lcd = "Feeding complete",
               !.report = "Feeding complete",
               !.step = "report",
               !.slept = IF settleDelay(run) > 0
                         THEN Max(@, SETTLE_READ_DELAY) ELSE @,
               !.busy = SETTLE_FINAL_TIME + settleDelay(run)
                          + 4 * INFO_DISPLAY_TIME,
               !.pc = "done"]

\* saturation value of the elapsed-time observers
SinceCap == COOLDOWN_PERIOD

(***************************************************************************)
(* checkWaterLevel() of helpers/water_helpers.h                            *)
(***************************************************************************)
\* mutant: no ceiling on the distance
checkWaterNoCeiling(w, currentMillis, dist) ==
  IF dist <= 0
  THEN w
  ELSE LET waterHeight == constrain(DISTANCE_WATER_EMPTY - dist, 0,
                            DISTANCE_WATER_EMPTY - DISTANCE_WATER_FULL)
       IN IF waterHeight <= WATER_CRITICAL_HEIGHT
          THEN [w EXCEPT !.state = "REFILL_RUNNING",
                         !.stateStartTime = currentMillis,
                         !.lastDisplayUpdate = currentMillis]
          ELSE w

\* mutant: the refill starts only strictly below the critical height
checkWaterStrict(w, currentMillis, dist) ==
  IF dist <= 0 \/ dist > MAX_VALID_DISTANCE
  THEN w
  ELSE LET waterHeight == constrain(DISTANCE_WATER_EMPTY - dist, 0,
                            DISTANCE_WATER_EMPTY - DISTANCE_WATER_FULL)
       IN IF waterHeight < WATER_CRITICAL_HEIGHT
          THEN [w EXCEPT !.state = "REFILL_RUNNING",
                         !.stateStartTime = currentMillis,
                         !.lastDisplayUpdate = currentMillis]
          ELSE w

\* case CHECK_WATER
checkWater(w, currentMillis, dist) ==
  IF dist <= 0 \/ dist > MAX_VALID_DISTANCE
  THEN w      \* "Sensor Error", return
  ELSE LET waterHeight == constrain(DISTANCE_WATER_EMPTY - dist, 0,
                            DISTANCE_WATER_EMPTY - DISTANCE_WATER_FULL)
       IN IF waterHeight <= WATER_CRITICAL_HEIGHT
          THEN \* digitalWrite(WATER_PUMP_RELAY_PIN, HIGH) is commented out
               \* in this implementation: the relay pin is not written
               [w EXCEPT !.state = "REFILL_RUNNING",
                         !.stateStartTime = currentMillis,
                         !.lastDisplayUpdate = currentMillis]
          ELSE w

\* mutant: the refill ends only after more than REFILL_DURATION
refillRunningLate(w, currentMillis) ==
  IF USub(currentMillis, w.stateStartTime) > REFILL_DURATION
  THEN [w EXCEPT !.relay = "LOW", !.state = "COOLDOWN",
                 !.stateStartTime = currentMillis,
                 !.lastDisplayUpdate = currentMillis]
  ELSE w

\* mutant: every call that leaves the pump running restarts the refill timer
refillRunningRestamps(w, currentMillis) ==
  LET w1 == IF USub(currentMillis, w.lastDisplayUpdate)
                 >= REFILL_DISPLAY_INTERVAL
            THEN [w EXCEPT !.lastDisplayUpdate = currentMillis]
            ELSE w
  IN IF USub(currentMillis, w1.stateStartTime) >= REFILL_DURATION
     THEN [w1 EXCEPT !.relay = "LOW",
                     !.state = "COOLDOWN",
                     !.stateStartTime = currentMillis,
                     !.lastDisplayUpdate = currentMillis]
     ELSE [w1 EXCEPT !.stateStartTime = currentMillis]

\* case REFILL_RUNNING
refillRunning(w, currentMillis) ==
  LET w1 == IF USub(currentMillis, w.lastDisplayUpdate)
                 >= REFILL_DISPLAY_INTERVAL
            THEN [w EXCEPT !.lastDisplayUpdate = currentMillis]
            ELSE w
  IN IF USub(currentMillis, w1.stateStartTime) >= REFILL_DURATION
     THEN [w1 EXCEPT !.relay = "LOW",
                     !.state = "COOLDOWN",
                     !.stateStartTime = currentMillis,
                     !.lastDisplayUpdate = currentMillis]
     ELSE w1

\* mutant: the cooldown is timed with the refill duration
cooldownShort(w, currentMillis) ==
  IF USub(currentMillis, w.stateStartTime) >= REFILL_DURATION
  THEN [w EXCEPT !.state = "CHECK_WATER"]
  ELSE w

\* mutant: the end of the cooldown restarts the refill without a check
cooldownSkipsCheck(w, currentMillis) ==
  IF USub(currentMillis, w.stateStartTime) >= COOLDOWN_PERIOD
  THEN [w EXCEPT !.state = "REFILL_RUNNING",
                 !.stateStartTime = currentMillis]
  ELSE w

\* case COOLDOWN
cooldown(w, currentMillis) ==
  LET w1 == IF USub(currentMillis, w.lastDisplayUpdate)
                 >= DISPLAY_UPDATE_INTERVAL
            THEN [w EXCEPT !.lastDisplayUpdate = currentMillis]
            ELSE w
  IN IF USub(currentMillis, w1.stateStartTime) >= COOLDOWN_PERIOD
     THEN [w1 EXCEPT !.state = "CHECK_WATER"]
     ELSE w1

checkWaterLevel(w, currentMillis, dist) ==
  CASE w.state = "CHECK_WATER" -> checkWater(w, currentMillis, dist)
    [] w.state = "REFILL_RUNNING" -> refillRunning(w, currentMillis)
    [] w.state = "COOLDOWN" -> cooldown(w, currentMillis)

(***************************************************************************)
(* checkWaterLevel() of main.cpp                                           *)
(***************************************************************************)
\* case CHECK_WATER
checkWaterMain(w, currentMillis, dist) ==
  IF dist <= 0 \/ dist > MAX_VALID_DISTANCE
  THEN w
  ELSE LET waterHeight == constrain(DISTANCE_WATER_EMPTY - dist, 0,
                            DISTANCE_WATER_EMPTY - DISTANCE_WATER_FULL)
       IN IF waterHeight <= WATER_CRITICAL_HEIGHT
          THEN [w EXCEPT !.relay = "HIGH",
                         !.state = "REFILL_RUNNING",
                         !.stateStartTime = currentMillis,
                         !.lastDisplayUpdate = currentMillis]
          ELSE w

\* case REFILL_RUNNING
refillRunningMain(w, currentMillis) ==
  LET w1 == IF USub(currentMillis, w.lastDisplayUpdate)
                 >= REFILL_DISPLAY_INTERVAL
            THEN [w EXCEPT !.lastDisplayUpdate = currentMillis]
            ELSE w
  IN IF USub(currentMillis, w1.stateStartTime) >= REFILL_DURATION
     THEN [w1 EXCEPT !.relay = "LOW",
                     !.state = "COOLDOWN",
                     !.stateStartTime = currentMillis,
                     !.lastDisplayUpdate = currentMillis]
     ELSE w1

\* case COOLDOWN
cooldownMain(w, currentMillis) ==
  LET w1 == IF USub(currentMillis, w.lastDisplayUpdate)
                 >= DISPLAY_UPDATE_INTERVAL
            THEN [w EXCEPT !.lastDisplayUpdate = currentMillis]
            ELSE w
  IN IF USub(currentMillis, w1.stateStartTime) >= COOLDOWN_PERIOD
     THEN [w1 EXCEPT !.state = "CHECK_WATER"]
     ELSE w1

checkWaterLevelMain(w, currentMillis, dist) ==
  CASE w.state = "CHECK_WATER" -> checkWaterMain(w, currentMillis, dist)
    [] w.state = "REFILL_RUNNING" -> refillRunningMain(w, currentMillis)
    [] w.state = "COOLDOWN" -> cooldownMain(w, currentMillis)

(***************************************************************************)
(* The sample filters                                                      *)
(***************************************************************************)
\* getDistance() of water_helpers.h: a ping of 0 us is a failed read, the
\* others are converted to cm; the integer mean, 0 when every ping failed
getDistance(run) ==
  LET validReadings == CountReady(run, Len(run))
  IN IF validReadings = 0
     THEN 0
     ELSE SumReady(run, Len(run)) \div validReadings

\* weight reads are multiples of SampleStep units, so that the mean of up
\* to PING_SAMPLES of them is a whole number of units
PING_SAMPLES == 5
SampleStep == 3 * 4 * 5
Weights(run) ==
  [i \in DOMAIN run |-> Sample(run[i].ready, run[i].units * SampleStep)]

NoFilter == [fn |-> "none", value |-> 0, valid |-> 0]

\* what a filter returned, and how many of the reads had succeeded
Filtered(fn, value, run) ==
  [fn |-> fn, value |-> value, valid |-> CountReady(run, Len(run))]

\* the statics as initialised at their declaration; the relay pin as
\* setupPins() leaves it
WaterInit ==
  [state |-> "CHECK_WATER", stateStartTime |-> 0, lastDisplayUpdate |-> 0,
   relay |-> "LOW"]

\* observer: real time since the machine last entered a timed state
SinceNext(old, new, since, gap) ==
  IF new.state # old.state /\ new.state \in {"REFILL_RUNNING", "COOLDOWN"}
  THEN 0
  ELSE Min(SinceCap, since + gap)

InitWater ==
  /\ now \in {0, Wrap - 2 * WaterTick}
  /\ water = WaterInit
  /\ waterMain = WaterInit
  /\ distanceCm = 0
  /\ sinceEntry = SinceCap
  /\ sinceEntryMain = SinceCap
  /\ feed = FeedIdle
  /\ samples = NoneReady
  /\ filtered = NoFilter
  /\ pinged = NoPing
  /\ AuxIdle

\* one call of checkWaterLevel(), gap ms after the previous one, on the
\* filtered distance dist; both implementations see the same call
WaterCall(gap, dist) ==
  LET t == (now + gap) % Wrap
      h == checkWaterLevel(water, t, dist)
      m == checkWaterLevelMain(waterMain, t, dist)
  IN /\ now' = t
     /\ distanceCm' = dist
     /\ water' = h
     /\ waterMain' = m
     /\ sinceEntry' = SinceNext(water, h, sinceEntry, gap)
     /\ sinceEntryMain' = SinceNext(waterMain, m, sinceEntryMain, gap)
     \* getDistance() is called in case CHECK_WATER and nowhere else
     /\ pinged' = [header |-> water.state = "CHECK_WATER",
                    main |-> waterMain.state = "CHECK_WATER"]
     /\ UNCHANGED <<feed, filterVars, auxVars>>

\* times between two consecutive calls: none, one tick, the refill duration,
\* the cooldown, the largest gap; filtered distances returned by
\* getDistance(), tenths of a cm: 0 = no echo, 150 = above the full mark,
\* 170 = exactly critical, 250 = below the empty mark, 4010 = above the
\* 400 cm ceiling
NextWater ==
  \E gap \in {0, WaterTick, REFILL_DURATION, COOLDOWN_PERIOD,
              MaxGapTicks * WaterTick},
     dist \in {0, 150, 170, 250, 4010} : WaterCall(gap, dist)

SpecWater == InitWater /\ [][NextWater]_vars

\* one pass of a filter; one read: failed, or a value from one step below
\* zero to MaxReading
InitFilter ==
  /\ samples \in [1..PING_SAMPLES ->
                    {Sample(FALSE, 0)}
                      \cup {Sample(TRUE, u) : u \in (-1)..MaxReading}]
  /\ filtered = NoFilter
  /\ now = 0
  /\ water = WaterInit
  /\ waterMain = WaterInit
  /\ distanceCm = 0
  /\ sinceEntry = SinceCap
  /\ sinceEntryMain = SinceCap
  /\ feed = FeedIdle
  /\ pinged = NoPing
  /\ AuxIdle

ApplyStableWeight ==
  /\ filtered' = Filtered("getStableWeight",
                          getStableWeight(Weights(samples)), samples)
  /\ UNCHANGED <<samples, feed, waterVars, auxVars>>

ApplySettledWeight ==
  /\ filtered' = Filtered("measureSettledWeight",
                          measureSettledWeight(Weights(samples)), samples)
  /\ UNCHANGED <<samples, feed, waterVars, auxVars>>

\* the reads are pings: a ping that succeeds converts to at least 1 cm
ApplyDistance ==
  /\ \A i \in DOMAIN samples : samples[i].ready => samples[i].units > 0
  /\ filtered' = Filtered("getDistance", getDistance(samples), samples)
  /\ UNCHANGED <<samples, feed, waterVars, auxVars>>

NextFilter == ApplyStableWeight \/ ApplySettledWeight \/ ApplyDistance

SpecFilter == InitFilter /\ [][NextFilter]_vars

(***************************************************************************)
(* The feeding session as a process                                        *)
(***************************************************************************)
\* checkScaleReady(): is_ready() is called every SCALE_POLL_DELAY while less
\* than SCALE_TIMEOUT has passed; firstReady counts the calls that answer
\* false before the first that would answer true
checkScaleReady(firstReady) ==
  firstReady * SCALE_POLL_DELAY < SCALE_TIMEOUT

\* mutant: a scale that is not ready does not stop the session
scaleCheckGoesOn(s, firstReady) ==
  [s EXCEPT !.pc = "bowl_check", !.lcd = "Checking bowl...",
            !.firstReady = firstReady,
            !.slept = IF firstReady > 0 THEN SCALE_POLL_DELAY ELSE 0,
            !.step = "scale_check", !.busy = QUICK_DISPLAY_TIME]

\* feeding(), lines 457-479
scaleCheck(s, firstReady) ==
  IF checkScaleReady(firstReady)
  THEN [s EXCEPT !.pc = "bowl_check", !.lcd = "Checking bowl...",
                 !.firstReady = firstReady,
                 !.step = "scale_check",
                 !.slept = IF firstReady > 0 THEN SCALE_POLL_DELAY ELSE 0,
                 !.busy = firstReady * SCALE_POLL_DELAY + QUICK_DISPLAY_TIME]
  ELSE [s EXCEPT !.pc = "done", !.lcd = "Error",
                 !.firstReady = firstReady,
                 !.exit = "SCALE_NOT_READY", !.step = "scale_check",
                 !.slept = IF firstReady > 0 THEN SCALE_POLL_DELAY ELSE 0,
                 !.busy = SCALE_TIMEOUT + INFO_DISPLAY_TIME]

\* feeding(), lines 481-497, and checkExistingFood() up to the press of the
\* button: pressed = the button went low in the NOTIFY_TIMEOUT window and
\* was still low after the debounce time
bowlCheck(s, run, pressed) ==
  LET w == getStableWeight(run)
      currentFoodWeight == IF w < 0 THEN 0 ELSE w
      s0 == [s EXCEPT !.currentFoodWeight = currentFoodWeight,
                      !.firstReady = 0,
                      !.slept = Max(@, IF currentFoodWeight
                                            >= Grams(FEED_THRESHOLD)
                                       THEN NOTIFY_POLL_DELAY
                                       ELSE SCALE_POLL_DELAY),
                      !.step = "bowl_check"]
  IN IF currentFoodWeight >= Grams(FEED_THRESHOLD)
     THEN IF pressed
          THEN [s0 EXCEPT !.pc = "await_release", !.lcd = "Food already >10g",
                          !.busy = INFO_DISPLAY_TIME]
          ELSE [s0 EXCEPT !.pc = "done", !.lcd = "Food weight:",
                          !.exit = "CANCELLED",
                          !.busy = INFO_DISPLAY_TIME + NOTIFY_TIMEOUT
                                     + QUICK_DISPLAY_TIME + INFO_DISPLAY_TIME]
     ELSE [s0 EXCEPT !.pc = "start", !.initialWeight = currentFoodWeight,
                     !.lcd = "Starting feed", !.busy = QUICK_DISPLAY_TIME]

\* checkExistingFood(), lines 151-156 and 195-204, then feeding(), lines
\* 491-497: the loop that waits for the release of the button
awaitRelease(s, released) ==
  IF released
  THEN [s EXCEPT !.pc = "start", !.initialWeight = s.currentFoodWeight,
                 !.waited = 0,
                 !.lcd = "Starting feed", !.step = "confirmed",
                 !.busy = QUICK_DISPLAY_TIME + QUICK_DISPLAY_TIME]
  ELSE [s EXCEPT !.waited = Min(NOTIFY_TIMEOUT + FeedTick, @ + FeedTick),
                 !.step = "held",
                 !.busy = FeedTick]

\* line 234: the loop condition
loopRuns(s, t) ==
  ~s.targetReached /\ USub(t, s.startTime) < FEED_TIMEOUT

\* line 238
pollDue(s, t) == USub(t, s.lastWeightRead) >= WEIGHT_READ_INTERVAL

\* the first time of the feed lattice that is at least busy after t
LatticeAfter(t, busy) ==
  (((t + busy + FeedTick - 1) \div FeedTick) * FeedTick) % Wrap

\* the times at which the step after one that took busy may begin: a short
\* while later (less than the weight read interval), or at one of the next
\* ticks
TimeAfter(t, busy) ==
  LET ShortGap == WEIGHT_READ_INTERVAL \div 2
      short == IF t % FeedTick = 0 /\ busy <= ShortGap
               THEN {(t + ShortGap) % Wrap} ELSE {}
      jumps == {(LatticeAfter(t, busy) + k * FeedTick) % Wrap :
                  k \in 0..(MaxAdvTicks - 1)}
  IN short \cup jumps

\* scale readings of a poll and of a settle pass, relative to initialWeight
PollDeltas == {-72, 0, 696, 702, 780, 2925}
\* the passes of a settle measurement: every sample reads the same; the
\* scale is never ready; the first two samples read 61.5 g, the scale then
\* misses one, the rest read 65 g
SettleRuns(w0) ==
  {AllReady(w0 + d) : d \in {-72, 0, 738, 741, 744, 780, 975}}
    \cup {NoneReady,
          [i \in 1..SETTLE_READINGS |->
             IF i <= 2 THEN Sample(TRUE, w0 + 738)
             ELSE IF i = 3 THEN Sample(FALSE, 0) ELSE Sample(TRUE, w0 + 780)]}

\* the session between two steps
Rested(s) == [s EXCEPT !.busy = 0]

StartFeeding ==
  /\ feed.pc = "idle"
  /\ feed' = [feed EXCEPT !.pc = "scale_check", !.lcd = "Feeding time",
                          !.step = "start"]
  /\ now' = LatticeAfter(now, QUICK_DISPLAY_TIME)
  /\ UNCHANGED <<water, waterMain, distanceCm, sinceEntry, sinceEntryMain,
               pinged, filterVars, auxVars>>

ScaleCheck(firstReady) ==
  /\ feed.pc = "scale_check"
  /\ LET s == scaleCheck(feed, firstReady)
     IN /\ feed' = Rested(s)
        /\ now' = LatticeAfter(now, s.busy)
  /\ UNCHANGED <<water, waterMain, distanceCm, sinceEntry, sinceEntryMain,
               pinged, filterVars, auxVars>>

BowlCheck(run, pressed) ==
  /\ feed.pc = "bowl_check"
  /\ LET s == bowlCheck(feed, run, pressed)
     IN /\ feed' = Rested(s)
        /\ now' = LatticeAfter(now, s.busy)
  /\ UNCHANGED <<water, waterMain, distanceCm, sinceEntry, sinceEntryMain,
               pinged, filterVars, auxVars>>

\* the button is released at once, or it stays low (a stuck button) and the
\* loop goes round again
AwaitRelease(released) ==
  /\ feed.pc = "await_release"
  /\ released => feed.waited = 0
  /\ LET s == awaitRelease(feed, released)
     IN /\ feed' = Rested(s)
        /\ now' = LatticeAfter(now, s.busy)
  /\ UNCHANGED <<water, waterMain, distanceCm, sinceEntry, sinceEntryMain,
               pinged, filterVars, auxVars>>

DispenseStart ==
  /\ feed.pc = "start"
  /\ LET s == dispenseStart(feed, now)
     IN /\ feed' = Rested(s)
        /\ now' = LatticeAfter(now, s.busy)
  /\ UNCHANGED <<water, waterMain, distanceCm, sinceEntry, sinceEntryMain,
               pinged, filterVars, auxVars>>

\* a loop iteration in which no weight read is due
SkipPoll ==
  /\ feed.pc = "dispensing"
  /\ loopRuns(feed, now)
  /\ ~pollDue(feed, now)
  /\ feed' = displayUpdate([feed EXCEPT !.step = "skip"], now)
  /\ now' \in TimeAfter(now, LOOP_DELAY)
  /\ UNCHANGED <<water, waterMain, distanceCm, sinceEntry, sinceEntryMain,
               pinged, filterVars, auxVars>>

\* a loop iteration that reads the weight and does not pre-close; the next
\* one begins at a time of TimeAfter or, when this one ends less than a tick
\* before it, at the last time at which the loop condition of line 234 holds
Poll(stall, d) ==
  /\ feed.pc = "dispensing"
  /\ loopRuns(feed, now)
  /\ pollDue(feed, now)
  /\ ~preCloseDue(movingAverage(feed, feed.initialWeight + d))
  /\ LET s == pollWeight(feed, now, stall, feed.initialWeight + d, NoneReady)
         elapsed == USub(now, feed.startTime) + s.busy + LOOP_DELAY
         LastChance ==
           IF /\ elapsed >= FEED_TIMEOUT - FeedTick
              /\ elapsed < FEED_TIMEOUT - LOOP_DELAY
           THEN {(feed.startTime + FEED_TIMEOUT - LOOP_DELAY) % Wrap}
           ELSE {}
     IN /\ feed' = Rested(displayUpdate(s, now))
        /\ now' \in TimeAfter(now, s.busy + LOOP_DELAY) \cup LastChance
  /\ UNCHANGED <<water, waterMain, distanceCm, sinceEntry, sinceEntryMain,
               pinged, filterVars, auxVars>>

\* a loop iteration that reads the weight, pre-closes and settles
PollPreClose(stall, d, run) ==
  /\ feed.pc = "dispensing"
  /\ loopRuns(feed, now)
  /\ pollDue(feed, now)
  /\ preCloseDue(movingAverage(feed, feed.initialWeight + d))
  /\ LET s == pollWeight(feed, now, stall, feed.initialWeight + d, run)
     IN /\ feed' = Rested(displayUpdate(s, now))
        /\ now' \in TimeAfter(now, s.busy + LOOP_DELAY)
  /\ UNCHANGED <<water, waterMain, distanceCm, sinceEntry, sinceEntryMain,
               pinged, filterVars, auxVars>>

\* a loop iteration in which the scale stays unready
PollScaleError ==
  /\ feed.pc = "dispensing"
  /\ loopRuns(feed, now)
  /\ pollDue(feed, now)
  /\ LET s == scaleError([feed EXCEPT !.lastWeightRead = now])
     IN /\ feed' = Rested(s)
        /\ now' \in TimeAfter(now, s.busy)
  /\ UNCHANGED <<water, waterMain, distanceCm, sinceEntry, sinceEntryMain,
               pinged, filterVars, auxVars>>

LoopExit ==
  /\ feed.pc = "dispensing"
  /\ ~loopRuns(feed, now)
  /\ feed' = loopExit(feed)
  /\ UNCHANGED <<now, water, waterMain, distanceCm, sinceEntry, sinceEntryMain,
               pinged, filterVars, auxVars>>

FinalMeasure(run) ==
  /\ feed.pc = "measuring"
  /\ LET s == finalMeasure(feed, run)
     IN /\ feed' = Rested(s)
        /\ now' = LatticeAfter(now, s.busy)
  /\ UNCHANGED <<water, waterMain, distanceCm, sinceEntry, sinceEntryMain,
               pinged, filterVars, auxVars>>

NextFeed ==
  \/ StartFeeding
  \* the scale is ready at once, at the last call made before
  \* SCALE_TIMEOUT, only at the call after it, or much later
  \/ \E firstReady \in {0, SCALE_TIMEOUT \div SCALE_POLL_DELAY - 1,
                         SCALE_TIMEOUT \div SCALE_POLL_DELAY, SCALE_TIMEOUT} :
       ScaleCheck(firstReady)
  \* readings of the bowl check: drift below zero, empty, 55 g, scale silent
  \/ \E run \in {AllReady(-24), AllReady(0), AllReady(660), NoneReady},
        pressed \in BOOLEAN : BowlCheck(run, pressed)
  \/ \E released \in BOOLEAN : AwaitRelease(released)
  \/ DispenseStart
  \/ SkipPoll
  \* failed is_ready() calls before a poll: none, or recovered at the last
  \* retry
  \/ \E stall \in {0, SCALE_RECOVER_TRIES}, d \in PollDeltas : Poll(stall, d)
  \/ \E stall \in {0, SCALE_RECOVER_TRIES}, d \in PollDeltas :
       \E run \in SettleRuns(feed.initialWeight) : PollPreClose(stall, d, run)
  \/ PollScaleError
  \/ LoopExit
  \* readings of the final measurement
  \/ \E run \in {AllReady(feed.initialWeight - 72),
                  AllReady(feed.initialWeight + 780), NoneReady} :
       FinalMeasure(run)

\* the session starts from the state in which setupPins() leaves the
\* controller
SpecFeed == InitWater /\ [][NextFeed]_vars

(***************************************************************************)
(* nonBlockingWait() of main.cpp                                           *)
(***************************************************************************)
\* delay(10) of one iteration of the wait loop
WAIT_SLICE == 10

\* the part of nonBlockingWait() before its loop, called at millis() = t:
\* whether it goes on to the loop, and for how long the loop is to run.
\* startDisplayTime = 0 stands for "no reference timestamp"
waitPlan(waitTime, startDisplayTime, t) ==
  IF LCD_TIMEOUT > 0 /\ startDisplayTime > 0
  THEN LET elapsedDisplayTime == USub(t, startDisplayTime)
       IN IF elapsedDisplayTime >= LCD_TIMEOUT
          THEN [loops |-> FALSE, actualWaitTime |-> waitTime]   \* return
          ELSE LET remainingDisplayTime == LCD_TIMEOUT - elapsedDisplayTime
               IN [loops |-> TRUE,
                   actualWaitTime |-> Max(waitTime, remainingDisplayTime)]
  ELSE [loops |-> TRUE, actualWaitTime |-> waitTime]

\* while (millis() - startWait < actualWaitTime)
waitGoesOn(w, t) == USub(t, w.startWait) < w.actualWaitTime

WaterIdle ==
  /\ water = WaterInit
  /\ waterMain = WaterInit
  /\ distanceCm = 0
  /\ sinceEntry = SinceCap
  /\ sinceEntryMain = SinceCap
  /\ pinged = NoPing

FilterIdle ==
  /\ samples = NoneReady
  /\ filtered = NoFilter

InitWait ==
  /\ now \in {0, FeedTick, Wrap - QUICK_DISPLAY_TIME}
  /\ feed = FeedIdle
  /\ WaterIdle
  /\ FilterIdle
  /\ AuxIdle

\* the call and the code before the loop
WaitCall(waitTime, startDisplayTime) ==
  /\ wait.pc = "idle"
  /\ LET p == waitPlan(waitTime, startDisplayTime, now)
     IN wait' = [pc |-> IF p.loops THEN "waiting" ELSE "returned",
                 waitTime |-> waitTime,
                 startDisplayTime |-> startDisplayTime,
                 startWait |-> now,
                 actualWaitTime |-> p.actualWaitTime]
  /\ UNCHANGED <<feed, waterVars, filterVars, mainLoop, band, sched, timer>>

\* one iteration of the loop: yield(); delay(10)
WaitSlice(d) ==
  /\ wait.pc = "waiting"
  /\ waitGoesOn(wait, now)
  /\ now' = (now + d) % Wrap
  /\ UNCHANGED <<wait, feed, water, waterMain, distanceCm, sinceEntry,
               sinceEntryMain, pinged, filterVars, mainLoop, band, sched, timer>>

\* the loop condition fails: the function returns
WaitReturn ==
  /\ wait.pc = "waiting"
  /\ ~waitGoesOn(wait, now)
  /\ wait' = [wait EXCEPT !.pc = "returned"]
  /\ UNCHANGED <<feed, waterVars, filterVars, mainLoop, band, sched, timer>>

\* the durations asked for and the ages of the reference timestamp at the
\* call
NextWait ==
  \/ \E waitTime \in {0, QUICK_DISPLAY_TIME, LCD_TIMEOUT, FeedTick} :
       WaitCall(waitTime, 0)
  \/ \E waitTime \in {0, QUICK_DISPLAY_TIME, LCD_TIMEOUT, FeedTick},
        age \in {0, LCD_UPDATE_INTERVAL, LCD_TIMEOUT - WAIT_SLICE,
                 LCD_TIMEOUT, FEED_TIMEOUT} :
       WaitCall(waitTime, USub(now, age))
  \* an iteration of the loop, or one in which yield() ran background work
  \* for longer
  \/ \E d \in {WAIT_SLICE, LCD_UPDATE_INTERVAL - WAIT_SLICE} : WaitSlice(d)
  \/ WaitReturn

SpecWait == InitWait /\ [][NextWait]_vars

(***************************************************************************)
(* loop() of main.cpp                                                      *)
(***************************************************************************)
\* lines 95-129 of one iteration that begins at millis() = currentMillis:
\* spent is the time feeding() took when the feed button was low (its
\* locals are gone when it returns); the water check is decided on
\* currentMillis, which was read before feeding() ran
waterCheckDue(l, currentMillis) ==
  USub(currentMillis, l.lastWaterCheckTime) >= WATER_CHECK_INTERVAL

loopStatics(l, currentMillis, spent, pressed) ==
  IF waterCheckDue(l, currentMillis)
  THEN [l EXCEPT !.lastWaterCheckTime = currentMillis,
                 !.callGap = Min(WATER_CHECK_INTERVAL, l.sinceCall + spent),
                 !.calls = Min(2, @ + 1),
                 !.fed = pressed,
                 !.sinceCall = LOOP_DELAY]
  ELSE [l EXCEPT !.sinceCall =
                   Min(WATER_CHECK_INTERVAL, @ + spent + LOOP_DELAY)]

InitLoop ==
  /\ now = 0
  /\ feed = FeedIdle
  /\ WaterIdle
  /\ FilterIdle
  /\ AuxIdle

\* one iteration of loop() in which the feed button is low or the water
\* check is due; the button goes low at times of the water lattice
LoopIteration(pressed, feedTime, dist) ==
  LET currentMillis == now
      spent == IF pressed THEN feedTime ELSE 0
      atCheck == (now + spent) % Wrap
      due == waterCheckDue(mainLoop, currentMillis)
      m == IF due THEN checkWaterLevelMain(waterMain, atCheck, dist)
           ELSE waterMain
  IN /\ pressed \/ due
     /\ pressed => now % WaterTick = 0
     /\ mainLoop' = loopStatics(mainLoop, currentMillis, spent, pressed)
     /\ waterMain' = m
     /\ distanceCm' = IF due THEN dist ELSE distanceCm
     /\ pinged' = IF due
                  THEN [pinged EXCEPT !.main = (waterMain.state = "CHECK_WATER")]
                  ELSE pinged
     /\ sinceEntryMain' =
          Min(SinceCap,
              SinceNext(waterMain, m, sinceEntryMain, spent) + LOOP_DELAY)
     /\ now' = (atCheck + LOOP_DELAY) % Wrap
     /\ UNCHANGED <<feed, water, sinceEntry, filterVars, wait, band, sched, timer>>

\* the iterations in which no button is low and the water check is not due
\* change nothing but the time: they are taken together, up to the next
\* time of the water lattice or to the time at which the check is due
LoopIdleTime ==
  LET toLattice == WaterTick - (now % WaterTick)
      toDue == WATER_CHECK_INTERVAL - USub(now, mainLoop.lastWaterCheckTime)
      IdleGap == Min(toLattice, toDue)
  IN
  /\ ~waterCheckDue(mainLoop, now)
  /\ now' = (now + IdleGap) % Wrap
  /\ mainLoop' = [mainLoop EXCEPT
                    !.sinceCall = Min(WATER_CHECK_INTERVAL, @ + IdleGap)]
  /\ sinceEntryMain' = Min(SinceCap, sinceEntryMain + IdleGap)
  /\ UNCHANGED <<feed, water, waterMain, distanceCm, sinceEntry, pinged,
                 filterVars, wait, band, sched, timer>>

NextLoop ==
  \* durations of a feeding() call: a short one that ends at an error
  \* message, and one that runs into FEED_TIMEOUT; filtered distances read
  \* in loop(): above the full mark, critical
  \/ \E pressed \in BOOLEAN,
        feedTime \in {FeedTick, FEED_TIMEOUT + 2 * FeedTick},
        dist \in {150, 170} :
       LoopIteration(pressed, feedTime, dist)
  \/ LoopIdleTime

SpecLoop == InitLoop /\ [][NextLoop]_vars

(***************************************************************************)
(* showFeedingResults() of feeding_helpers.h                               *)
(***************************************************************************)
\* lines 419-427: the quality message of an accuracy percentage
qualityOf(feedPct) ==
  IF feedPct >= PERFECT_PCT_LOW /\ feedPct <= PERFECT_PCT_HIGH
  THEN "Perfect portion!"
  ELSE IF feedPct < UNDERFED_PCT THEN "Underfed - retry?"
  ELSE IF feedPct > OVERFED_PCT THEN "Overfed - adjust"
  ELSE "Good enough"

\* mutant: the percentage is rounded to the nearest whole number
showFeedingResultsRounded(b) ==
  LET d == b.finalWeight - b.initialWeight
      dispensedWeight == IF d < 0 THEN 0 ELSE d
      feedPct == constrain((dispensedWeight * 100 + b.targetAmount \div 2)
                             \div b.targetAmount, 0, FEED_PCT_MAX)
  IN [b EXCEPT !.pc = "shown",
               !.dispensedWeight = dispensedWeight,
               !.feedPct = feedPct,
               !.qualityMsg = qualityOf(feedPct)]

\* lines 401-430: the float quotient times 100 is converted to int, which
\* drops the fraction
showFeedingResults(b) ==
  LET d == b.finalWeight - b.initialWeight
      dispensedWeight == IF d < 0 THEN 0 ELSE d
      feedPct == constrain((dispensedWeight * 100) \div b.targetAmount,
                           0, FEED_PCT_MAX)
  IN [b EXCEPT !.pc = "shown",
               !.dispensedWeight = dispensedWeight,
               !.feedPct = feedPct,
               !.qualityMsg = qualityOf(feedPct)]

\* the weights before and after the feeding: the bowl empty or with 5 g at
\* the start, and from 1 g less than that to 90 g more in half grams
InitBand ==
  /\ band \in {[NoBand EXCEPT !.initialWeight = i, !.finalWeight = i + d] :
                 i \in {0, Grams(5)},
                 d \in {k * (Grams(1) \div 2) :
                          k \in (0 - 2)..(2 * MaxBandGrams)}}
  /\ wait = WaitIdle
  /\ mainLoop = LoopIdle
  /\ sched = SchedIdle
  /\ timer = TimerIdle
  /\ now = 0
  /\ feed = FeedIdle
  /\ WaterIdle
  /\ FilterIdle

ShowFeedingResults ==
  /\ band.pc = "idle"
  /\ band' = showFeedingResults(band)
  /\ UNCHANGED <<feed, waterVars, filterVars, wait, mainLoop, sched, timer>>

SpecBand == InitBand /\ [][ShowFeedingResults]_vars

(***************************************************************************)
(* The feeding schedule: helpers/web_helpers.h                             *)
(***************************************************************************)
MINUTES_PER_DAY == 24 * 60
SECONDS_PER_DAY == MINUTES_PER_DAY * 60

\* getHours() * 60 + getMinutes()
currentTimeMinutes(epoch) == (epoch % SECONDS_PER_DAY) \div 60

\* lines 380-387: minutes until the entry at scheduleMinutes comes round
timeDiff(scheduleMinutes, current) ==
  IF scheduleMinutes > current
  THEN scheduleMinutes - current
  ELSE scheduleMinutes + (MINUTES_PER_DAY - current)

\* lines 373-393: the entries whose timeDiff is below the initial
\* minTimeDiff and is the least
nextSchedules(enabled, current) ==
  {m \in enabled :
     /\ timeDiff(m, current) < MINUTES_PER_DAY + 1
     /\ \A k \in enabled : timeDiff(m, current) <= timeDiff(k, current)}

\* lines 397-415: gmtime_r, the fields of the entry, mktime
scheduleTimestamp(epoch, scheduleMinutes) ==
  LET midnight == epoch - (epoch % SECONDS_PER_DAY)
      day == IF scheduleMinutes <= currentTimeMinutes(epoch)
             THEN SECONDS_PER_DAY ELSE 0
  IN midnight + day + scheduleMinutes * 60

\* mutant: the enabled flag of an entry is not looked at
enabledSchedulesAll(schedules) == {e.minutes : e \in schedules}

\* lines 344-366: the minutes since midnight of the entries of the message
\* that are enabled; an entry is its parsed time and its flag
enabledSchedules(schedules) == {e.minutes : e \in {x \in schedules : x.enabled}}

\* mutant: an entry of the current minute counts as later today
processSchedulesSameMinute(s, hasData, schedules) ==
  IF ~hasData \/ ~s.timeSet
  THEN s
  ELSE LET current == currentTimeMinutes(s.epoch)
           enabled == {e.minutes : e \in {x \in schedules : x.enabled}}
           best == {m \in enabled :
                      /\ (IF m >= current THEN m - current
                          ELSE m + (MINUTES_PER_DAY - current))
                           < MINUTES_PER_DAY + 1
                      /\ \A k \in enabled :
                           (IF m >= current THEN m - current
                            ELSE m + (MINUTES_PER_DAY - current))
                             <= (IF k >= current THEN k - current
                                 ELSE k + (MINUTES_PER_DAY - current))}
       IN [s EXCEPT
             !.enabled = enabled,
             !.disabled = {e.minutes : e \in {x \in schedules : ~x.enabled}},
             !.event = "schedules",
             !.hasActiveSchedule = enabled # {},
             !.nextScheduledFeeding =
                IF best = {} THEN 0
                ELSE LET m == CHOOSE m \in best : TRUE
                     IN s.epoch - (s.epoch % SECONDS_PER_DAY)
                          + (IF m < current THEN SECONDS_PER_DAY ELSE 0)
                          + m * 60]

\* processSchedules() on a "schedules" message with the entries schedules;
\* hasData: the message holds the array of entries
processSchedules(s, hasData, schedules) ==
  IF ~hasData \/ ~s.timeSet
  THEN s
  ELSE LET enabled == enabledSchedules(schedules)
           best == nextSchedules(enabled, currentTimeMinutes(s.epoch))
       IN [s EXCEPT
             !.enabled = {e.minutes : e \in {x \in schedules : x.enabled}},
             !.disabled = {e.minutes : e \in {x \in schedules : ~x.enabled}},
             !.event = "schedules",
             !.hasActiveSchedule = enabled # {},
             !.nextScheduledFeeding =
                IF best = {} THEN 0
                ELSE scheduleTimestamp(s.epoch, CHOOSE m \in best : TRUE)]

\* mutant: the reset leaves hasActiveSchedule as it is
checkSchedulesKeepsFlag(s) ==
  IF ~s.timeSet
  THEN s
  ELSE [s EXCEPT !.nextScheduledFeeding = 0,
                 !.event = "check"]

\* checkSchedules(): asks the server for the schedules and resets
checkSchedules(s) ==
  IF ~s.timeSet
  THEN s
  ELSE [s EXCEPT !.nextScheduledFeeding = 0,
                 !.hasActiveSchedule = FALSE,
                 !.event = "check"]

\* webUpdate(): webSocket.loop() hands a message that has arrived to
\* processSchedules(), then the periodic check
webUpdate(s, arrived, hasData, schedules) ==
  LET s0 == [s EXCEPT !.event = "update"]
      s1 == IF arrived /\ s.webConnected
            THEN processSchedules(s0, hasData, schedules)
            ELSE s0
  IN IF /\ s1.webConnected
        /\ s1.epoch - s1.lastScheduleCheck > SCHEDULE_CHECK_INTERVAL
        /\ s1.timeSet
     THEN checkSchedules([s1 EXCEPT !.lastScheduleCheck = s1.epoch])
     ELSE s1

InitSched ==
  /\ sched = SchedIdle
  /\ timer = TimerIdle
  /\ wait = WaitIdle
  /\ mainLoop = LoopIdle
  /\ band = NoBand
  /\ now = 0
  /\ feed = FeedIdle
  /\ WaterIdle
  /\ FilterIdle

\* time passes up to the next time at which the clock is followed: the
\* quarters of the day and half a minute before, half a minute after and a
\* minute and a half after each
ClockAdvance ==
  /\ LET ClockTimes ==
           {q * (SECONDS_PER_DAY \div 4) + o :
              q \in 0..(4 * MaxDays - 1),
              o \in {(SECONDS_PER_DAY \div 4) - 30, 0, 30, 90}}
     IN \E t \in ClockTimes :
          /\ t > sched.epoch
          /\ \A u \in ClockTimes : u > sched.epoch => t <= u
          /\ sched' = [sched EXCEPT !.epoch = t, !.event = "clock"]
  /\ UNCHANGED <<feed, waterVars, filterVars, wait, mainLoop, band, timer>>

\* the NTP client gets the time
TimeIsSet ==
  /\ ~sched.timeSet
  /\ sched' = [sched EXCEPT !.timeSet = TRUE, !.event = "time"]
  /\ UNCHANGED <<feed, waterVars, filterVars, wait, mainLoop, band, timer>>

\* the WebSocket connects or disconnects
Connection(up) ==
  /\ sched.webConnected # up
  /\ sched' = [sched EXCEPT !.webConnected = up, !.event = "connection"]
  /\ UNCHANGED <<feed, waterVars, filterVars, wait, mainLoop, band, timer>>

WebUpdate(arrived, hasData, schedules) ==
  /\ ~arrived => (~hasData /\ schedules = {})
  /\ sched' = webUpdate(sched, arrived, hasData, schedules)
  /\ UNCHANGED <<feed, waterVars, filterVars, wait, mainLoop, band, timer>>

NextSched ==
  \/ ClockAdvance
  \/ TimeIsSet
  \/ \E up \in BOOLEAN : Connection(up)
  \* the entries of a message: none; 06:00; 18:00; both; one whose text
  \* "99:99" parses to minutes that never come round; 18:00 with 12:00
  \* disabled; 12:00 disabled alone
  \/ LET on(m) == [minutes |-> m, enabled |-> TRUE]
         off(m) == [minutes |-> m, enabled |-> FALSE]
     IN \E arrived \in BOOLEAN, hasData \in BOOLEAN,
           schedules \in {{}, {on(6 * 60)}, {on(18 * 60)},
                          {on(6 * 60), on(18 * 60)}, {on(99 * 60 + 99)},
                          {on(18 * 60), off(12 * 60)}, {off(12 * 60)}} :
          WebUpdate(arrived, hasData, schedules)

SpecSched == InitSched /\ [][NextSched]_vars

(***************************************************************************)
(* The dispense loop of feeding() in main.cpp                              *)
(*   The session runs in the record feed, as the one of the header does;   *)
(*   main.cpp compares against FEED_WEIGHT where the header compares       *)
(*   against targetAmount.                                                 *)
(***************************************************************************)
PRE_CLOSE_THRESHOLD == 85
FINAL_ACCURACY == 90
EXCESSIVE_THRESHOLD == 125
MAX_FEEDING_TIME == 30000
SETTLE_TIME == 1500
RETRY_MAX == 2

\* line 1111: the loop condition
loopRunsMain(s, t) ==
  ~s.targetReached /\ USub(t, s.startTime) < MAX_FEEDING_TIME

\* lines 1160-1241: close, settle, re-measure inline; retry, complete or give
\* up only when a sample of the settle measurement was taken
preCloseMain(s, run) ==
  IF ~s.preCloseExecuted
     /\ Reaches(s.dispensedWeight, Grams(FEED_WEIGHT), PRE_CLOSE_THRESHOLD)
  THEN
    LET validReadings == CountReady(run, Len(run))
        settledWeight == IF validReadings > 0
                         THEN SumReady(run, Len(run)) \div validReadings
                         ELSE 0
        dw == IF settledWeight - s.initialWeight < 0 THEN 0
              ELSE settledWeight - s.initialWeight
        s1 == [observeRun(s, run, Len(run)) EXCEPT
                 !.hatch = "CLOSE",
                 !.preCloseExecuted = TRUE,
                 !.lcd = "Almost there...",
                 !.busy = @ + SETTLE_TIME + validReadings * 100,
                 !.slept = Max(@, SETTLE_TIME),
                 !.step = "preclose"]
        s2 == [s1 EXCEPT
                 !.dispensedWeight = dw,
                 !.currentWeight = settledWeight,
                 !.weightReadings =
                    [i \in 0..(movingAvgSize - 1) |-> settledWeight],
                 !.settled = dw]
    IN IF validReadings > 0
       THEN IF ~Reaches(dw, Grams(FEED_WEIGHT), FINAL_ACCURACY)
               /\ s.retryCount < RETRY_MAX
            THEN [s2 EXCEPT !.retryCount = @ + 1,
                            !.lcd = "Need more food",
                            !.hatch = "OPEN",
                            !.opens = @ + 1,
                            !.busy = @ + 300,
                            !.preCloseExecuted = FALSE]
            ELSE IF Reaches(dw, Grams(FEED_WEIGHT), FINAL_ACCURACY)
            THEN [s2 EXCEPT !.targetReached = TRUE,
                            !.lcd = "Target reached!",
                            !.status = "Target reached!",
                            !.busy = @ + 1000,
                            !.exit = "COMPLETE"]
            ELSE IF s.retryCount >= RETRY_MAX
            THEN [s2 EXCEPT !.lcd = "Warning: Only",
                            !.status = "Warning: Only",
                            !.busy = @ + 1500,
                            !.targetReached = TRUE,
                            !.exit = "PARTIAL"]
            ELSE s2
       ELSE s1
  ELSE s

\* lines 1244-1268: the direct target check and the emergency stop
standardCheckMain(s) ==
  IF s.preCloseExecuted
  THEN s
  ELSE LET s1 == IF s.dispensedWeight >= Grams(FEED_WEIGHT)
                 THEN IF s.stabilityCounter < 2
                      THEN [s EXCEPT !.hatch = "CLOSE",
                                     !.preCloseExecuted = TRUE,
                                     !.stabilityCounter = @ + 1]
                      ELSE [s EXCEPT !.hatch = "CLOSE",
                                     !.preCloseExecuted = TRUE,
                                     !.targetReached = TRUE,
                                     !.exit = "COMPLETE"]
                 ELSE s
       IN IF Reaches(s.dispensedWeight, Grams(FEED_WEIGHT),
                     EXCESSIVE_THRESHOLD)
          THEN [s1 EXCEPT !.hatch = "CLOSE",
                          !.lcd = "Warning!",
                          !.status = "Excess food!",
                          !.busy = @ + 1000,
                          !.targetReached = TRUE,
                          !.exit = "EXCESS"]
          ELSE s1

\* lines 1115-1269 when a weight read is due and the scale answers after
\* stall failed is_ready() calls; lines 1141-1157 are the statements of
\* movingAverage
pollWeightMain(s, t, stall, units, run) ==
  LET s0 == [s EXCEPT !.lastWeightRead = t,
                      !.step = "poll",
                      !.busy = stall * 100]
  IN standardCheckMain(preCloseMain(movingAverage(s0, units), run))

\* lines 1077-1108: the tare is the weight in the bowl, the hatch is opened
\* and the locals are set; the weight in the bowl is below FEED_THRESHOLD
InitFeedMain ==
  /\ now \in {SERVO_OPEN_DELAY, Wrap - 2 * FeedTick + SERVO_OPEN_DELAY}
  /\ \E w0 \in {0, Grams(10)} :
       feed = Rested(dispenseStart(
                [FeedIdle EXCEPT !.currentFoodWeight = w0,
                                 !.initialWeight = w0],
                now))
  /\ WaterIdle
  /\ FilterIdle
  /\ AuxIdle

\* a loop iteration in which no weight read is due; lines 1271-1304 are the
\* statements of displayUpdate
SkipPollMain ==
  /\ feed.pc = "dispensing"
  /\ loopRunsMain(feed, now)
  /\ ~pollDue(feed, now)
  /\ feed' = displayUpdate([feed EXCEPT !.step = "skip"], now)
  /\ now' \in TimeAfter(now, LOOP_DELAY)
  /\ UNCHANGED <<water, waterMain, distanceCm, sinceEntry, sinceEntryMain,
               pinged, filterVars, auxVars>>

\* a loop iteration that reads the weight
PollMain(stall, d, run) ==
  /\ feed.pc = "dispensing"
  /\ loopRunsMain(feed, now)
  /\ pollDue(feed, now)
  /\ LET s == pollWeightMain(feed, now, stall, feed.initialWeight + d, run)
     IN /\ feed' = Rested(displayUpdate(s, now))
        /\ now' \in TimeAfter(now, s.busy + LOOP_DELAY)
  /\ UNCHANGED <<water, waterMain, distanceCm, sinceEntry, sinceEntryMain,
               pinged, filterVars, auxVars>>

\* lines 1118-1139: the scale did not recover; feeding() returns
ScaleErrorMain ==
  /\ feed.pc = "dispensing"
  /\ loopRunsMain(feed, now)
  /\ pollDue(feed, now)
  /\ feed' = [feed EXCEPT !.lastWeightRead = now,
                          !.lcd = "Scale error!",
                          !.hatch = "CLOSE",
                          !.exit = "ERROR_SCALE",
                          !.step = "scale_error",
                          !.pc = "done"]
  /\ now' = LatticeAfter(now, 5 * 100 + LCD_TIMEOUT)
  /\ UNCHANGED <<water, waterMain, distanceCm, sinceEntry, sinceEntryMain,
               pinged, filterVars, auxVars>>

\* lines 1310-1311: the loop has ended, the hatch is closed
LoopExitMain ==
  /\ feed.pc = "dispensing"
  /\ ~loopRunsMain(feed, now)
  /\ feed' = [feed EXCEPT !.hatch = "CLOSE",
                          !.exit = IF feed.exit = "none" THEN "TIMEOUT"
                                   ELSE feed.exit,
                          !.step = "exit",
                          !.pc = "measuring"]
  /\ UNCHANGED <<now, water, waterMain, distanceCm, sinceEntry, sinceEntryMain,
               pinged, filterVars, auxVars>>

NextFeedMain ==
  \/ SkipPollMain
  \* the scale is ready, or recovers at the last retry; the settle
  \* measurement reads 58 g or 65 g, or the scale is never ready
  \/ \E stall \in {0, SCALE_RECOVER_TRIES}, d \in PollDeltas :
       \E run \in {AllReady(feed.initialWeight + 696),
                   AllReady(feed.initialWeight + 780), NoneReady} :
         PollMain(stall, d, run)
  \/ ScaleErrorMain
  \/ LoopExitMain

SpecFeedMain == InitFeedMain /\ [][NextFeedMain]_vars

(***************************************************************************)
(* The elapsed-time tests                                                  *)
(*   A timestamp is recorded at start; real time passes; one of the tests  *)
(*   of the code is then made on the value millis() has at that moment.    *)
(***************************************************************************)
\* the timestamp is recorded at the beginning of the clock's range, a tick
\* before the clock wraps, or at the last value before it wraps
InitElapsed ==
  /\ now \in {0, Wrap - WaterTick, Wrap - 1}
  /\ timer = [TimerIdle EXCEPT !.start = now]
  /\ feed = FeedIdle
  /\ WaterIdle
  /\ FilterIdle
  /\ wait = WaitIdle
  /\ mainLoop = LoopIdle
  /\ band = NoBand
  /\ sched = SchedIdle

\* real time passes, to a tick or to the millisecond before it; the real
\* time since start stays below the range of the clock
Elapse(d) ==
  /\ timer.elapsed + d < Wrap
  /\ (timer.elapsed + d) % WaterTick \in {0, WaterTick - 1}
  /\ now' = (now + d) % Wrap
  /\ timer' = [timer EXCEPT !.elapsed = @ + d, !.test = "none",
                            !.decision = FALSE]
  /\ UNCHANGED <<feed, water, waterMain, distanceCm, sinceEntry,
                 sinceEntryMain, pinged, filterVars, wait, mainLoop, band,
                 sched>>

\* water_helpers.h line 270: REFILL_RUNNING was entered at start; the call
\* made now ends the refill or not
RefillTest ==
  /\ timer.test = "none"
  /\ LET w == [WaterInit EXCEPT !.state = "REFILL_RUNNING",
                                !.stateStartTime = timer.start,
                                !.lastDisplayUpdate = timer.start]
     IN timer' = [timer EXCEPT
                    !.test = "refill",
                    !.decision = (refillRunning(w, now).state = "COOLDOWN")]
  /\ UNCHANGED <<feed, waterVars, filterVars, wait, mainLoop, band, sched>>

\* water_helpers.h line 326: COOLDOWN was entered at start; the call made
\* now ends the cooldown or not
CooldownTest ==
  /\ timer.test = "none"
  /\ LET w == [WaterInit EXCEPT !.state = "COOLDOWN",
                                !.stateStartTime = timer.start,
                                !.lastDisplayUpdate = timer.start]
     IN timer' = [timer EXCEPT
                    !.test = "cooldown",
                    !.decision = (cooldown(w, now).state = "CHECK_WATER")]
  /\ UNCHANGED <<feed, waterVars, filterVars, wait, mainLoop, band, sched>>

\* feeding_helpers.h line 234: the dispensing began at start and the target
\* is not reached; the loop condition evaluated now ends the loop or not
FeedTimeoutTest ==
  /\ timer.test = "none"
  /\ timer' = [timer EXCEPT
                 !.test = "feed",
                 !.decision =
                    ~loopRuns([FeedIdle EXCEPT !.startTime = timer.start],
                              now)]
  /\ UNCHANGED <<feed, waterVars, filterVars, wait, mainLoop, band, sched>>

\* main.cpp lines 123-126: the water level was last checked at start; the
\* iteration of loop() that begins now checks it or not
WaterPollTest ==
  /\ timer.test = "none"
  /\ timer' = [timer EXCEPT
                 !.test = "poll",
                 !.decision =
                    waterCheckDue(
                      [LoopIdle EXCEPT !.lastWaterCheckTime = timer.start],
                      now)]
  /\ UNCHANGED <<feed, waterVars, filterVars, wait, mainLoop, band, sched>>

NextElapsed ==
  \/ \E d \in {1, WaterTick - 1, WaterTick} : Elapse(d)
  \/ RefillTest
  \/ CooldownTest
  \/ FeedTimeoutTest
  \/ WaterPollTest

SpecElapsed == InitElapsed /\ [][NextElapsed]_vars

(***************************************************************************)
(* Claims about the wait primitive                                         *)
(***************************************************************************)
\* C21: nonBlockingWait(duration, minElapsedSince) never returns before
\* duration has elapsed since the call, whatever the reference timestamp
\* and the time of the call
C21_NeverReturnsBeforeDuration ==
  wait.pc = "returned" => USub(now, wait.startWait) >= wait.waitTime

\* C22: when a reference timestamp is supplied, at the return at least
\* LCD_TIMEOUT has elapsed since the reference and the function has waited
\* max(duration, LCD_TIMEOUT - time elapsed since the reference at the call)
C22_DwellWithoutDoubleCounting ==
  wait.pc = "returned" /\ wait.startDisplayTime > 0 =>
    /\ USub(now, wait.startDisplayTime) >= LCD_TIMEOUT
    /\ USub(now, wait.startWait)
         >= Max(wait.waitTime,
                LCD_TIMEOUT - USub(wait.startWait, wait.startDisplayTime))

(***************************************************************************)
(* Claims about the water state machine                                    *)
(***************************************************************************)
\* real time elapsed in the timed state at the call a step makes
ElapsedAtCall(since) == Min(SinceCap, since + USub(now', now))

StartsRefill(w, w2) ==
  \/ w2.state = "REFILL_RUNNING" /\ w.state # "REFILL_RUNNING"
  \/ w.relay = "LOW" /\ w2.relay = "HIGH"

\* C2: after the refill has ended, no call starts a new refill (enters
\* REFILL_RUNNING or switches the relay on) before COOLDOWN_PERIOD of real
\* time has passed since COOLDOWN was entered, whatever the readings and
\* the times of the calls.
C2_NoRefillBeforeCooldownEnds ==
  [][ /\ StartsRefill(water, water') =>
           /\ water.state = "CHECK_WATER"
           /\ ElapsedAtCall(sinceEntry) >= COOLDOWN_PERIOD
      /\ StartsRefill(waterMain, waterMain') =>
           /\ waterMain.state = "CHECK_WATER"
           /\ ElapsedAtCall(sinceEntryMain) >= COOLDOWN_PERIOD ]_vars

\* a call with a low reading was made in the middle of the cooldown
C2_Witness ==
  /\ water.state = "COOLDOWN" /\ waterMain.state = "COOLDOWN"
  /\ distanceCm = 170
  /\ sinceEntry >= WaterTick /\ sinceEntry < COOLDOWN_PERIOD
  /\ sinceEntryMain = sinceEntry

LowValid(dist) ==
  /\ dist > 0 /\ dist <= MAX_VALID_DISTANCE
  /\ constrain(DISTANCE_WATER_EMPTY - dist, 0,
               DISTANCE_WATER_EMPTY - DISTANCE_WATER_FULL)
       <= WATER_CRITICAL_HEIGHT

\* C6: a CHECK_WATER call of water_helpers.h with a valid distance whose
\* clamped water height is at most WATER_CRITICAL_HEIGHT switches the relay
\* on, enters REFILL_RUNNING and records the entry time in that same call.
C6_LowReadingStartsPump ==
  [][ (water.state = "CHECK_WATER" /\ LowValid(distanceCm')) =>
        /\ water'.relay = "HIGH"
        /\ water'.state = "REFILL_RUNNING"
        /\ water'.stateStartTime = now' ]_vars

StaysRefilling(w, w2) ==
  /\ w2.state = "REFILL_RUNNING"
  /\ w2.relay = w.relay
  /\ w2.stateStartTime = w.stateStartTime

EndsRefill(w2) ==
  /\ w2.state = "COOLDOWN"
  /\ w2.relay = "LOW"
  /\ w2.stateStartTime = now'

\* C7: a call made in REFILL_RUNNING switches the relay off, enters COOLDOWN
\* and records the time of the call as the entry time exactly when the real
\* time since REFILL_RUNNING was entered is at least REFILL_DURATION; a
\* call made earlier leaves state, relay and entry time alone.
C7_RefillEndsAtDuration ==
  [][ /\ water.state = "REFILL_RUNNING" =>
           IF ElapsedAtCall(sinceEntry) >= REFILL_DURATION
           THEN EndsRefill(water') ELSE StaysRefilling(water, water')
      /\ waterMain.state = "REFILL_RUNNING" =>
           IF ElapsedAtCall(sinceEntryMain) >= REFILL_DURATION
           THEN EndsRefill(waterMain') ELSE StaysRefilling(waterMain, waterMain')
    ]_vars

\* the refill has just ended, REFILL_DURATION after it began
C7_Witness ==
  /\ water.state = "COOLDOWN" /\ waterMain.state = "COOLDOWN"
  /\ sinceEntry = 0 /\ sinceEntryMain = 0
  /\ water.stateStartTime = now /\ waterMain.stateStartTime = now
  /\ water.relay = "LOW" /\ waterMain.relay = "LOW"

WaterCycle ==
  {<<"CHECK_WATER", "REFILL_RUNNING">>, <<"REFILL_RUNNING", "COOLDOWN">>,
   <<"COOLDOWN", "CHECK_WATER">>}

\* C8: a call changes the water state only along CHECK_WATER ->
\* REFILL_RUNNING -> COOLDOWN -> CHECK_WATER, one transition per call.
C8_StrictCycle ==
  [][ /\ water'.state # water.state =>
           <<water.state, water'.state>> \in WaterCycle
      /\ waterMain'.state # waterMain.state =>
           <<waterMain.state, waterMain'.state>> \in WaterCycle ]_vars

\* both machines are back in CHECK_WATER after a refill and a cooldown
C8_Witness ==
  /\ water.state = "CHECK_WATER" /\ waterMain.state = "CHECK_WATER"
  /\ sinceEntry >= COOLDOWN_PERIOD /\ sinceEntryMain >= COOLDOWN_PERIOD
  /\ water.lastDisplayUpdate # 0 /\ waterMain.lastDisplayUpdate # 0
  /\ waterMain.relay = "LOW"

(***************************************************************************)
(* Claims about the feeding session                                        *)
(***************************************************************************)
\* C1: the last hatch command is CLOSE whenever the session is not in the
\* dispense loop, in particular after every way dispenseFoodWithFeedback()
\* and feeding() return.
C1_HatchClosedOutsideDispensing ==
  feed.pc # "dispensing" => feed.hatch = "CLOSE"

\* the dispensing timed out after the hatch had been reopened for a retry
C1_Witness ==
  /\ feed.pc \in {"measuring", "done"}
  /\ feed.exit = "TIMEOUT"
  /\ feed.opens >= 2
  /\ feed.hatch = "CLOSE"

\* C3: a poll at which dispensedWeight >= 1.25 x target closes the hatch
\* and ends the dispensing on the 'Excess food' branch.
C3_ExcessEndsAsExcess ==
  (feed.step \in {"poll", "preclose"}
     /\ Reaches(feed.polled, feed.targetAmount, EXCESS_FACTOR))
    => (feed.hatch = "CLOSE" /\ feed.exit = "EXCESS")

RetryPost(r) ==
  /\ feed'.retryCount = r + 1
  /\ feed'.hatch = "OPEN"
  /\ ~feed'.preCloseExecuted
  /\ ~feed'.targetReached
  /\ feed'.exit = "none"
  /\ feed'.pc = "dispensing"

EndPost(r, s, exit) ==
  /\ feed'.retryCount = r
  /\ feed'.hatch = "CLOSE"
  /\ feed'.targetReached
  /\ feed'.exit = exit
  /\ feed'.dispensedWeight = s

C5_TimeoutReportedApart ==
  (feed.pc = "done" /\ feed.exit = "TIMEOUT")
    => (feed.hatch = "CLOSE" /\ feed.report # "Feeding complete")

\* C9: retryCount never exceeds FEED_RETRY_TIMEOUT and the hatch is
\* commanded open at most 1 + FEED_RETRY_TIMEOUT times in a session.
C9_RetriesBounded ==
  /\ feed.retryCount <= FEED_RETRY_TIMEOUT
  /\ feed.opens <= 1 + FEED_RETRY_TIMEOUT

\* every retry was used
C9_Witness ==
  /\ feed.retryCount = FEED_RETRY_TIMEOUT
  /\ feed.opens = 1 + FEED_RETRY_TIMEOUT
  /\ feed.exit = "PARTIAL"

\* C10: the dispensed weight is never negative: the value of the poll, the
\* value after the settle, the value returned and the value reported.
C10_DispensedNonNegative ==
  /\ feed.dispensedWeight >= 0
  /\ feed.polled >= 0
  /\ feed.settled >= 0
  /\ feed.returned >= 0
  /\ feed.reportedWeight >= 0

\* the scale read less than initialWeight at a poll, and again at the
\* final measurement
C10_Witness ==
  /\ feed.pc = "done"
  /\ feed.exit = "TIMEOUT"
  /\ feed.currentWeight < feed.initialWeight
  /\ feed.finalWeight < feed.initialWeight
  /\ feed.returned = 0
  /\ feed.reportedWeight = 0

\* C11: when the raw readings of the dispensing never decreased and the
\* first of them at or above the target was below 1.25 x target, a
\* dispensing that ended on one of its own outcomes ended as COMPLETE, and
\* with a dispensedWeight of at least 0.95 x target and less than
\* 1.25 x target.
C11_MonotoneRampCompletes ==
  (/\ feed.monotone
   /\ feed.zone = "target"
   /\ feed.exit \in {"COMPLETE", "PARTIAL", "EXCESS"})
    => /\ feed.exit = "COMPLETE"
       /\ Reaches(feed.dispensedWeight, feed.targetAmount, FEED_COMPLETE_FACTOR)
       /\ ~Reaches(feed.dispensedWeight, feed.targetAmount, EXCESS_FACTOR)

\* the dispensing has ended after every retry was used and with every raw
\* reading below 0.95 x target
ShortAfterRetries ==
  /\ feed.pc = "measuring"
  /\ feed.retryCount = FEED_RETRY_TIMEOUT
  /\ feed.zone = "below"

C13_DirectReachConfirmedTwice ==
  [][ (/\ feed.pc = "dispensing"
       /\ ~feed.preCloseExecuted
       /\ feed.exit = "none"
       /\ feed'.step \in {"poll", "preclose"}
       /\ feed'.polled >= feed.targetAmount
       /\ feed'.exit = "COMPLETE")
        => feed.stabilityCounter >= 2 ]_vars

\* C14: whatever the outcome of the session, feeding() has made the final
\* measurement and shown and published the result when it returns.
C14_TerminalThenMeasureAndPublish ==
  feed.pc = "done" =>
    (feed.step = "report" /\ feed.report = "Feeding complete")

\* C15: when the scale stays unready during the dispensing the hatch is
\* closed and feeding() does not report the session as a completed feeding.
C15_ScaleErrorAborts ==
  (feed.pc = "done" /\ feed.exit = "ERROR_SCALE")
    => (feed.hatch = "CLOSE" /\ feed.report # "Feeding complete")

\* C16: when no is_ready() call made within SCALE_TIMEOUT answers true,
\* feeding() shows the error and returns: the hatch was never commanded open
\* and no weight was read; when one answers true the session goes on to the
\* bowl check.
C16_ScaleCheckTimeout ==
  [][ feed.pc = "scale_check" =>
        IF feed'.firstReady * SCALE_POLL_DELAY < SCALE_TIMEOUT
        THEN feed'.pc = "bowl_check" /\ feed'.exit = "none"
        ELSE /\ feed'.pc = "done"
             /\ feed'.exit = "SCALE_NOT_READY"
             /\ feed'.lcd = "Error"
             /\ feed'.opens = 0 /\ feed'.hatch = "CLOSE"
             /\ feed'.currentFoodWeight = FeedIdle.currentFoodWeight
             /\ feed'.currentWeight = FeedIdle.currentWeight
             /\ feed'.finalWeight = FeedIdle.finalWeight
             /\ feed'.report = "" ]_vars

\* the scale answered only at the call after the last one made
C16_Witness ==
  /\ feed.pc = "done"
  /\ feed.exit = "SCALE_NOT_READY"
  /\ feed.firstReady = SCALE_TIMEOUT \div SCALE_POLL_DELAY
  /\ feed.opens = 0

\* C17: with at least FEED_THRESHOLD in the bowl, the wait for the
\* confirmation ends within NOTIFY_TIMEOUT whatever the button does; without
\* a confirmation the session is cancelled and the hatch never opened; with
\* one the dispensing starts from the weight found in the bowl.
C17_BowlCheckBoundedAndDecides ==
  /\ feed.pc = "await_release" => feed.waited <= NOTIFY_TIMEOUT
  /\ feed.exit = "CANCELLED" => (feed.opens = 0 /\ feed.hatch = "CLOSE")
  /\ feed.pc \in {"start", "dispensing", "measuring"} =>
        feed.initialWeight = feed.currentFoodWeight

(***************************************************************************)
(* Claims about the water sensor and the sample filters                    *)
(***************************************************************************)
\* C18: a CHECK_WATER call whose filtered distance is <= 0 or above the
\* 400 cm ceiling leaves the state, the entry time and the relay as they
\* were, in both implementations.
C18_SensorErrorNoChange ==
  [][ (distanceCm' <= 0 \/ distanceCm' > MAX_VALID_DISTANCE) =>
        /\ water.state = "CHECK_WATER" => water' = water
        /\ waterMain.state = "CHECK_WATER" => waterMain' = waterMain ]_vars

\* back in CHECK_WATER after a cycle, a call read a distance above the
\* ceiling
C18_Witness ==
  /\ distanceCm > MAX_VALID_DISTANCE
  /\ water.state = "CHECK_WATER" /\ waterMain.state = "CHECK_WATER"
  /\ water.stateStartTime # 0 /\ waterMain.stateStartTime # 0
  /\ waterMain.relay = "LOW"

\* a call made in a timed state before its time has elapsed
EarlyTick(w, since) ==
  \/ w.state = "REFILL_RUNNING" /\ ElapsedAtCall(since) < REFILL_DURATION
  \/ w.state = "COOLDOWN" /\ ElapsedAtCall(since) < COOLDOWN_PERIOD

SameStateStampRelay(w, w2) ==
  /\ w2.state = w.state
  /\ w2.stateStartTime = w.stateStartTime
  /\ w2.relay = w.relay

\* C26: a checkWaterLevel() call made in REFILL_RUNNING before
\* REFILL_DURATION has elapsed, or in COOLDOWN before COOLDOWN_PERIOD has
\* elapsed, leaves the state, the entry time and the relay as they were and
\* does not read the distance sensor, in both implementations and for every
\* time between calls.
C26_EarlyTicksAreNoOps ==
  [][ /\ EarlyTick(water, sinceEntry) =>
           SameStateStampRelay(water, water') /\ ~pinged'.header
      /\ EarlyTick(waterMain, sinceEntryMain) =>
           SameStateStampRelay(waterMain, waterMain') /\ ~pinged'.main
    ]_vars

\* calls have been made during the cooldown, which still runs
C26_Witness ==
  /\ water.state = "COOLDOWN" /\ waterMain.state = "COOLDOWN"
  /\ sinceEntry > WaterTick /\ sinceEntry < COOLDOWN_PERIOD
  /\ sinceEntryMain = sinceEntry
  /\ ~pinged.header /\ ~pinged.main
  /\ water.lastDisplayUpdate # water.stateStartTime

\* C28: with the empty mark at 19 cm, the full mark at 16 cm and the
\* critical height 2 cm, the CHECK_WATER case given 17.5 cm computes the
\* height 1.5 cm and goes to REFILL_RUNNING; a CHECK_WATER call goes to
\* REFILL_RUNNING exactly when the distance is valid and the height
\* 19 cm - distance, clamped to [0, 3] cm, is at most 2 cm.
C28_CheckingDecision ==
  [][ /\ constrain(DISTANCE_WATER_EMPTY - 175, 0,
                   DISTANCE_WATER_EMPTY - DISTANCE_WATER_FULL) = 15
      /\ checkWater(WaterInit, now, 175).state = "REFILL_RUNNING"
      /\ checkWaterMain(WaterInit, now, 175).state = "REFILL_RUNNING"
      /\ (water.state = "CHECK_WATER" =>
            (water'.state = "REFILL_RUNNING" <=> LowValid(distanceCm')))
      /\ (waterMain.state = "CHECK_WATER" =>
            (waterMain'.state = "REFILL_RUNNING" <=> LowValid(distanceCm')))
    ]_vars

\* a check read exactly the critical height and started the refill
C28_Witness ==
  /\ water.state = "REFILL_RUNNING" /\ waterMain.state = "REFILL_RUNNING"
  /\ pinged.header /\ pinged.main
  /\ distanceCm = DISTANCE_WATER_EMPTY - WATER_CRITICAL_HEIGHT
  /\ sinceEntry = 0 /\ sinceEntryMain = 0

\* a poll of the worked example: empty bowl at the start, target 65 g,
\* pre-close flag clear
ExamplePoll ==
  /\ feed.pc = "dispensing"
  /\ feed.initialWeight = 0
  /\ feed.targetAmount = Grams(65)
  /\ ~feed.preCloseExecuted
  /\ feed'.step \in {"poll", "preclose"}

SettlesComplete62 ==
  (feed'.step = "preclose" /\ feed'.settled = Grams(62)) =>
    /\ feed'.exit = "COMPLETE"
    /\ feed'.dispensedWeight = Grams(62)
    /\ feed'.hatch = "CLOSE"

SchedulingSlice == SETTLE_READ_DELAY

\* C23: no step of the feeding controller makes a single blocking sleep
\* longer than one scheduling slice (tens of milliseconds); every longer
\* suspension is a loop of nonBlockingWait() or of sample collection.
C23_NoLongBlockingSleep ==
  feed.slept <= SchedulingSlice

\* C24: every invocation of feeding() eventually returns to loop(), for
\* every behaviour of the scale and of the button, assuming only that time
\* advances: a step inside feeding() that leaves the whole session as it
\* was, and so can be taken again, is an iteration of the dispense loop,
\* which the clock brings nearer to FEED_TIMEOUT.
C24_FeedingReturns ==
  [][ (feed.pc \notin {"idle", "done"} /\ feed' = feed) =>
        /\ feed.pc = "dispensing"
        /\ USub(now', feed.startTime) > USub(now, feed.startTime) ]_vars

\* C25: any two consecutive invocations of checkWaterLevel() made by loop()
\* are at least WATER_CHECK_INTERVAL apart in time, also when feeding() ran
\* in the loop iteration that made the first of them.
C25_WaterChecksSpaced ==
  mainLoop.calls >= 2 => mainLoop.callGap >= WATER_CHECK_INTERVAL

\* 100 x dispensed mass and the target, whose quotient is the accuracy
\* percentage p of a report
Dispensed100(b) ==
  100 * (IF b.finalWeight < b.initialWeight THEN 0
         ELSE b.finalWeight - b.initialWeight)

BandIs(b, msg) == b.qualityMsg = msg

\* C29: the band reported by showFeedingResults() is a total function of
\* p = dispensed / target x 100 (dispensed clamped to >= 0): "perfect"
\* exactly when 95 <= p <= 105, "underfed" exactly when p < 80, "overfed"
\* exactly when p > 120, "acceptable" otherwise.
C29_BandsOfExactPercentage ==
  band.pc = "shown" =>
    LET d == Dispensed100(band)
        T == band.targetAmount
    IN /\ BandIs(band, "Perfect portion!") <=> (95 * T <= d /\ d <= 105 * T)
       /\ BandIs(band, "Underfed - retry?") <=> d < 80 * T
       /\ BandIs(band, "Overfed - adjust") <=> d > 120 * T
       /\ BandIs(band, "Good enough") <=>
             (80 * T <= d /\ d < 95 * T) \/ (105 * T < d /\ d <= 120 * T)

\* C29, amended: the band is a total function of p with its fraction
\* dropped: "perfect" exactly when 95 <= p < 106, "underfed" exactly when
\* p < 80, "overfed" exactly when p >= 121, "acceptable" otherwise
\* (80 <= p < 95 or 106 <= p < 121).
C29_BandsOfTruncatedPercentage ==
  band.pc = "shown" =>
    LET d == Dispensed100(band)
        T == band.targetAmount
    IN /\ BandIs(band, "Perfect portion!") <=> (95 * T <= d /\ d < 106 * T)
       /\ BandIs(band, "Underfed - retry?") <=> d < 80 * T
       /\ BandIs(band, "Overfed - adjust") <=> d >= 121 * T
       /\ BandIs(band, "Good enough") <=>
             (80 * T <= d /\ d < 95 * T) \/ (106 * T <= d /\ d < 121 * T)

\* 68.5 g of a 65 g target, 105.4 %, were reported as a perfect portion
C29_Witness ==
  /\ band.pc = "shown"
  /\ Dispensed100(band) > 105 * band.targetAmount
  /\ band.feedPct = 105
  /\ BandIs(band, "Perfect portion!")

\* webUpdate() has just run with the connection up and the time set, and
\* the schedules last processed hold an enabled entry
UpdatedWithSchedule ==
  /\ sched.event \in {"update", "schedules", "check"}
  /\ sched.webConnected /\ sched.timeSet
  /\ sched.enabled # {}

\* C30: nextScheduledFeeding is the sentinel 0 or a timestamp, and it is
\* recomputed whenever the schedule set changes or the time advances past
\* the stored value: once webUpdate() has handled that, the stored value
\* is not a timestamp in the past while an enabled entry exists.
C30_NeverInThePastAfterUpdate ==
  UpdatedWithSchedule =>
    \/ sched.nextScheduledFeeding = 0
    \/ sched.nextScheduledFeeding >= sched.epoch

\* C30, amended: nextScheduledFeeding is 0 or the timestamp of an enabled
\* entry; processSchedules() stores a timestamp later than the current
\* time and at most a day ahead when an entry can be met, and 0 otherwise;
\* the schedule check, made once SCHEDULE_CHECK_INTERVAL has passed with
\* the connection up, resets it to 0; so a stored timestamp lies in the
\* past after webUpdate() only when the last check is at most
\* SCHEDULE_CHECK_INTERVAL old.
C30_FreshAfterHandlers ==
  /\ \/ sched.nextScheduledFeeding = 0
     \/ /\ sched.nextScheduledFeeding % 60 = 0
        /\ currentTimeMinutes(sched.nextScheduledFeeding) \in sched.enabled
  /\ sched.event = "schedules" =>
       /\ sched.hasActiveSchedule <=> sched.enabled # {}
       /\ IF \E m \in sched.enabled : m < MINUTES_PER_DAY
          THEN /\ sched.nextScheduledFeeding > sched.epoch
               /\ sched.nextScheduledFeeding - sched.epoch <= SECONDS_PER_DAY
          ELSE sched.nextScheduledFeeding = 0
  /\ sched.event = "check" =>
       sched.nextScheduledFeeding = 0 /\ ~sched.hasActiveSchedule
  /\ (UpdatedWithSchedule /\ sched.nextScheduledFeeding # 0
        /\ sched.nextScheduledFeeding < sched.epoch) =>
       sched.epoch - sched.lastScheduleCheck <= SCHEDULE_CHECK_INTERVAL

\* the schedules were processed half a minute into the minute of the only
\* enabled entry: the next feeding is that entry of the next day
C30_Witness ==
  /\ sched.event = "schedules"
  /\ sched.enabled = {currentTimeMinutes(sched.epoch)}
  /\ sched.epoch % 60 = 30
  /\ sched.nextScheduledFeeding = sched.epoch - 30 + SECONDS_PER_DAY
  /\ sched.hasActiveSchedule

\* C19: a mass filter pass in which no read succeeded does not return the
\* number 0, the value of an empty scale.
C19_NoValidSignalsFailure ==
  (filtered.fn \in {"getStableWeight", "measureSettledWeight"}
     /\ filtered.valid = 0)
    => filtered.value # 0

\* the reads the applied filter worked on
FilterInput ==
  IF filtered.fn = "getDistance" THEN samples ELSE Weights(samples)

RECURSIVE MinReady(_, _)
MinReady(run, n) ==
  IF n = 0 THEN MaxReading * SampleStep
  ELSE IF run[n].ready THEN Min(run[n].units, MinReady(run, n - 1))
       ELSE MinReady(run, n - 1)

RECURSIVE MaxReady(_, _)
MaxReady(run, n) ==
  IF n = 0 THEN -SampleStep
  ELSE LET m == MaxReady(run, n - 1)
       IN IF run[n].ready /\ run[n].units > m THEN run[n].units ELSE m

\* C20: when at least one read succeeded, what getStableWeight(),
\* measureSettledWeight() and getDistance() return is at least the smallest
\* and at most the largest of the reads that succeeded.
C20_FilterWithinValidRange ==
  (filtered.fn # "none" /\ filtered.valid > 0) =>
    /\ MinReady(FilterInput, Len(samples)) <= filtered.value
    /\ filtered.value <= MaxReady(FilterInput, Len(samples))

\* one read failed, the others differ, and the result is strictly between
\* the smallest and the largest of them
C20_Witness ==
  /\ filtered.fn = "measureSettledWeight"
  /\ filtered.valid = PING_SAMPLES - 1
  /\ MinReady(FilterInput, Len(samples)) < filtered.value
  /\ filtered.value < MaxReady(FilterInput, Len(samples))

(***************************************************************************)
(* Claims about the window of the dispensing loop                          *)
(***************************************************************************)
\* the window once the slot in turn holds the raw reading units
WindowWith(s, units) == [s.weightReadings EXCEPT ![s.readingIndex] = units]

\* the mean of a window
WindowMean(w) == (w[0] + w[1] + w[2]) \div movingAvgSize

\* every slot of the window holds c
WindowIs(w, c) == \A i \in 0..(movingAvgSize - 1) : w[i] = c

\* a loop iteration of the dispensing in which the weight is read
PollStep ==
  /\ feed.pc = "dispensing"
  /\ loopRuns(feed, now)
  /\ pollDue(feed, now)
  /\ feed'.step \in {"poll", "preclose"}

\* C31: the window is filled with initialWeight when the dispensing starts;
\* a poll writes its raw reading into the slot in turn and computes
\* dispensedWeight as max(0, mean of the window - initialWeight); a
\* pre-close settle fills every slot with the settled weight, so the
\* equation also holds when the poll ends.  Hence a reading that deviates
\* by d from a window that held c in every slot moves dispensedWeight from
\* max(0, c - initialWeight) to max(0, c + d/3 - initialWeight).
C31_DispensedIsWindowMean ==
  [][ /\ (feed'.step = "open" =>
            WindowIs(feed'.weightReadings, feed'.initialWeight))
      /\ (PollStep =>
            /\ \E d \in PollDeltas :
                 LET units == feed.initialWeight + d
                     w == WindowWith(feed, units)
                     c == feed.weightReadings[0]
                 IN /\ feed'.polled =
                         Max(0, WindowMean(w) - feed.initialWeight)
                    /\ (feed'.step = "poll" => feed'.weightReadings = w)
                    /\ (WindowIs(feed.weightReadings, c) =>
                          /\ feed.dispensedWeight =
                               Max(0, c - feed.initialWeight)
                          /\ feed'.polled =
                               Max(0, c + ((units - c) \div movingAvgSize)
                                        - feed.initialWeight))
            /\ (feed'.step = "preclose" =>
                  \E run \in SettleRuns(feed.initialWeight) :
                    WindowIs(feed'.weightReadings, measureSettledWeight(run)))
            /\ feed'.dispensedWeight =
                 Max(0, WindowMean(feed'.weightReadings) - feed.initialWeight))
    ]_vars

\* the first poll read 58 g above initialWeight into a window that held
\* initialWeight in every slot, and dispensedWeight is a third of that
C31_Witness ==
  /\ feed.pc = "dispensing"
  /\ feed.step = "poll"
  /\ feed.weightReadings[0] = feed.initialWeight + 696
  /\ feed.weightReadings[1] = feed.initialWeight
  /\ feed.weightReadings[2] = feed.initialWeight
  /\ feed.polled = 232
  /\ feed.dispensedWeight = 232

(***************************************************************************)
(* Claims about the distance filter                                        *)
(***************************************************************************)
\* the echoes of a pass without the k-th one
OtherEchoes(k) == {samples[i].units : i \in DOMAIN samples \ {k}}

\* C32: when all PING_SAMPLES echoes of a pass came back, the distance the
\* CHECK_WATER case is given lies within the range of the other echoes,
\* whichever single echo is taken to be the outlier (as the median of an
\* odd number of echoes does).
C32_OutlierLeavesDistanceInRange ==
  (filtered.fn = "getDistance" /\ filtered.valid = PING_SAMPLES) =>
    \A k \in DOMAIN samples :
      \E lo \in OtherEchoes(k), hi \in OtherEchoes(k) :
        lo <= filtered.value /\ filtered.value <= hi

(***************************************************************************)
(* Claims about the choice of the next feeding                             *)
(***************************************************************************)
\* the start of the minute after the current one
NextMinute == sched.epoch - (sched.epoch % 60) + 60

\* the times, from the next minute on, at which an entry at one of the
\* minutes ms comes round today or tomorrow
Occurrences(ms) ==
  {t \in {sched.epoch - (sched.epoch % SECONDS_PER_DAY)
            + d * SECONDS_PER_DAY + m * 60 : m \in ms, d \in 0..1} :
     t >= NextMinute}

\* hasActiveSchedule is set and nextScheduledFeeding is the earliest
\* occurrence of an entry at one of the minutes ms
NearestOf(ms) ==
  /\ sched.hasActiveSchedule
  /\ sched.nextScheduledFeeding \in Occurrences(ms)
  /\ \A t \in Occurrences(ms) : sched.nextScheduledFeeding <= t
  /\ sched.nextScheduledFeeding > sched.epoch
  /\ sched.nextScheduledFeeding - sched.epoch <= SECONDS_PER_DAY
  /\ currentTimeMinutes(sched.nextScheduledFeeding) \notin sched.disabled

C34_PumpOffInTime ==
  [][ /\ (waterMain.relay = "HIGH" =>
            sinceEntryMain <= REFILL_DURATION + WATER_CHECK_INTERVAL)
      /\ ((waterMain.relay = "HIGH" /\ waterMain'.relay = "LOW") =>
            USub(waterMain'.stateStartTime, waterMain.stateStartTime)
              <= REFILL_DURATION + WATER_CHECK_INTERVAL)
    ]_vars

(***************************************************************************)
(* Claims about the end of the dispense loop                               *)
(***************************************************************************)
\* C35: in dispenseFoodWithFeedback() every command that opens the hatch,
\* the reopening for a retry included, is given less than FEED_TIMEOUT
\* after the start of the dispensing.
C35_NoOpenAfterTimeout == ~feed.lateOpen

(***************************************************************************)
(* Claims about the two implementations                                    *)
(***************************************************************************)
\* C36: at the end of every iteration of the dispense loop the pre-close
\* flag is set only if the session has reached a terminal condition: after a
\* pre-close the hatch is reopened for a retry or the session terminates,
\* whatever the scale reads and whether or not it is ready during the settle
\* measurement
C36_PreCloseOnlyWhenTerminal ==
  (feed.pc = "dispensing" /\ feed.preCloseExecuted) => feed.targetReached

\* C37: run side by side on the same call times and distance readings, the
\* water state machine of the header and the one of main.cpp are always in
\* the same state with the same state-entry timestamp and have issued the
\* same pump-relay commands, so the relay is at the same level
C37_WaterMachinesEquivalent ==
  /\ water.state = waterMain.state
  /\ water.stateStartTime = waterMain.stateStartTime
  /\ water.relay = waterMain.relay

(***************************************************************************)
(* Claims about the elapsed-time tests                                     *)
(***************************************************************************)
\* C38: the elapsed-time tests are unsigned differences of millis() values,
\* so the end of the refill, the end of the cooldown, the feed timeout and
\* the water poll are decided exactly when the real time since the recorded
\* start has reached the period, also when millis() has wrapped in between
\* (for a real time below the range of the clock)
C38_ElapsedTestsSurviveWrap ==
  /\ timer.test = "refill" =>
       (timer.decision <=> timer.elapsed >= REFILL_DURATION)
  /\ timer.test = "cooldown" =>
       (timer.decision <=> timer.elapsed >= COOLDOWN_PERIOD)
  /\ timer.test = "feed" =>
       (timer.decision <=> timer.elapsed >= FEED_TIMEOUT)
  /\ timer.test = "poll" =>
       (timer.decision <=> timer.elapsed >= WATER_CHECK_INTERVAL)

\* the cooldown ends exactly COOLDOWN_PERIOD after a start recorded just
\* before the clock wrapped
C38_Witness ==
  /\ timer.test = "cooldown"
  /\ timer.decision
  /\ timer.elapsed = COOLDOWN_PERIOD
  /\ timer.start = Wrap - 1
  /\ now < timer.start

=============================================================================
